---- MODULE Spec2Model ----
(***************************************************************************)
(* Model of the godbsql repository core (src/sql.go): the filter compiler, *)
(* the soft-delete rewriter, the CRUD statement builders and the relation  *)
(* dispatch of Connection[T].                                              *)
(*                                                                         *)
(* SQL text is modelled as a sequence of tokens (one token per fragment    *)
(* that fmt.Sprintf / WriteString puts between blanks); a statement is a   *)
(* record of its clauses plus its argument list.  The database behind the  *)
(* *sql.DB handle is modelled by Exec*, which evaluates the token sequence *)
(* of the WHERE clause against the stored rows with SQL semantics.         *)
(***************************************************************************)
EXTENDS Integers, Sequences, FiniteSets, TLC

VARIABLES
    fin,          \* SpecFilters: the input of prepareFilters, [filters, counter]
    fout,         \* SpecFilters: what prepareFilters returned, or NoResult
    db,           \* the database: table name -> rows in natural query order
    conn,         \* the repositories: name -> Connection[T] struct
    now,          \* the clock read by time.Now()
    call          \* the last facade call: inputs, statements sent, result

vars == <<fin, fout, db, conn, now, call>>

----------------------------------------------------------------------------
(* Constants of src/sql.go:21-35 *)
ComparatorEqual     == "="
ComparatorNotEqual  == "!="
ComparatorIn        == "IN"
ComparatorNotIn     == "NOT IN"
ComparatorIsNull    == "IS NULL"
ComparatorIsNotNull == "IS NOT NULL"
OperatorAnd         == "AND"
OperatorOr          == "OR"

(* A nil *string (Filter.Comparator, Filter.Operator) and an empty          *)
(* GroupFilter.Operator are the empty string.                               *)
Nil == ""

(* SQL NULL in a column; all other column values are naturals.              *)
NULL == -1

----------------------------------------------------------------------------
(* Filter tree nodes (models.Filter, models.FilterMultipleValue,            *)
(* models.GroupFilter) and a node of any other dynamic type.                *)
Filter(key, value, comparator, operator) ==
    [type |-> "Filter", Key |-> key, Value |-> value,
     Comparator |-> comparator, Operator |-> operator]

FilterMultipleValue(key, values, comparator) ==
    [type |-> "FilterMultipleValue", Key |-> key, Values |-> values,
     Comparator |-> comparator]

GroupFilter(filters, operator) ==
    [type |-> "GroupFilter", Filters |-> filters, Operator |-> operator]

OtherNode == [type |-> "Other"]

----------------------------------------------------------------------------
(* Tokens of generated SQL text.                                            *)
Tok(k, s, n) == [k |-> k, s |-> s, n |-> n]
KeyTok(key)  == Tok("key", key, 0)
CmpTok(c)    == Tok("cmp", c, 0)
PhTok(i)     == Tok("ph", "$", i)
OpTok(o)     == Tok("op", o, 0)
LParen       == Tok("(", "(", 0)
RParen       == Tok(")", ")", 0)
Comma        == Tok(",", ",", 0)

(* The "$%d" list of a FilterMultipleValue: lines 1083-1094.                *)
RECURSIVE MultiPlaceholders(_, _, _)
MultiPlaceholders(values, counter, subitems) ==
    IF subitems > Len(values) THEN <<>>
    ELSE (IF subitems > 1 THEN <<Comma>> ELSE <<>>)
         \o <<PhTok(counter)>>
         \o MultiPlaceholders(values, counter + 1, subitems + 1)

(* prepareFilters: src/sql.go:1045-1124.  PrepareLoop is the for loop over  *)
(* filters.Filters with its accumulators queryBuilder, vals and counter.    *)
RECURSIVE prepareFilters(_, _)
RECURSIVE PrepareLoop(_, _, _, _, _)

FilterStep(filter, counter) ==
    LET comparator == IF filter.Comparator # Nil THEN filter.Comparator
                      ELSE ComparatorEqual
    IN  IF comparator \notin {ComparatorIsNull, ComparatorIsNotNull,
                              ComparatorIn, ComparatorNotIn}
        THEN [parts |-> <<KeyTok(filter.Key), CmpTok(comparator), PhTok(counter)>>,
              vals |-> <<filter.Value>>, counter |-> counter + 1]
        ELSE IF comparator \in {ComparatorIn, ComparatorNotIn}
        THEN [parts |-> <<>>, vals |-> <<>>, counter |-> counter]
        ELSE [parts |-> <<KeyTok(filter.Key), CmpTok(comparator)>>,
              vals |-> <<>>, counter |-> counter]

(* MultiStep with the counter left where it was after the value list.       *)
MultiStepStale(multiFilter, counter) ==
    LET comparator == IF multiFilter.Comparator # Nil THEN multiFilter.Comparator
                      ELSE ComparatorIn
    IN  IF comparator \in {ComparatorIn, ComparatorNotIn}
        THEN [parts |-> <<KeyTok(multiFilter.Key), CmpTok(comparator), LParen>>
                        \o MultiPlaceholders(multiFilter.Values, counter, 1)
                        \o <<RParen>>,
              vals |-> multiFilter.Values,
              counter |-> counter]
        ELSE [parts |-> <<>>, vals |-> <<>>, counter |-> counter]

MultiStep(multiFilter, counter) ==
    LET comparator == IF multiFilter.Comparator # Nil THEN multiFilter.Comparator
                      ELSE ComparatorIn
    IN  IF comparator \in {ComparatorIn, ComparatorNotIn}
        THEN [parts |-> <<KeyTok(multiFilter.Key), CmpTok(comparator), LParen>>
                        \o MultiPlaceholders(multiFilter.Values, counter, 1)
                        \o <<RParen>>,
              vals |-> multiFilter.Values,
              counter |-> counter + Len(multiFilter.Values)]
        ELSE [parts |-> <<>>, vals |-> <<>>, counter |-> counter]

GroupStep(groupFilter, counter) == 
    LET Wrap(sub) ==
            IF sub.q # <<>>
            THEN [parts |-> <<LParen>> \o sub.q \o <<RParen>>,
                  vals |-> sub.vals, counter |-> sub.counter]
            ELSE [parts |-> <<>>, vals |-> <<>>, counter |-> sub.counter]
    IN  Wrap(prepareFilters(groupFilter, counter))
NodeStep(tmpFilter, counter) ==
    CASE tmpFilter.type = "Filter" -> FilterStep(tmpFilter, counter)
      [] tmpFilter.type = "FilterMultipleValue" -> MultiStep(tmpFilter, counter)
      [] tmpFilter.type = "GroupFilter" -> GroupStep(tmpFilter, counter)
      [] OTHER -> [parts |-> <<>>, vals |-> <<>>, counter |-> counter]

(* The loop writing the operator before a sibling that emitted nothing.     *)
PrepareLoopEager(filters, i, queryBuilder, vals, counter) ==
    IF i > Len(filters.Filters)
    THEN [q |-> queryBuilder, vals |-> vals, counter |-> counter]
    ELSE LET groupOperator == IF filters.Operator # "" THEN filters.Operator
                              ELSE OperatorAnd
             Write(cur) ==
                 PrepareLoop(filters, i + 1,
                     queryBuilder
                       \o (IF Len(queryBuilder) > 0 THEN <<OpTok(groupOperator)>>
                           ELSE <<>>)
                       \o cur.parts,
                     vals \o cur.vals, cur.counter)
         IN  Write(NodeStep(filters.Filters[i], counter))

PrepareLoop(filters, i, queryBuilder, vals, counter) == 
    IF i > Len(filters.Filters)
    THEN [q |-> queryBuilder, vals |-> vals, counter |-> counter]
    ELSE LET groupOperator == IF filters.Operator # "" THEN filters.Operator
                              ELSE OperatorAnd
             Write(cur) ==
                 IF Len(cur.parts) > 0
                 THEN PrepareLoop(filters, i + 1,
                          queryBuilder
                            \o (IF Len(queryBuilder) > 0 THEN <<OpTok(groupOperator)>>
                                ELSE <<>>)
                            \o cur.parts,
                          vals \o cur.vals, cur.counter)
                 ELSE PrepareLoop(filters, i + 1, queryBuilder, vals, cur.counter)
         IN  Write(NodeStep(filters.Filters[i], counter))
prepareFilters(filters, counter) ==
    PrepareLoop(filters, 1, <<>>, <<>>, IF counter <= 0 THEN 1 ELSE counter)

----------------------------------------------------------------------------
(* The rewrite that wraps the caller's tree: (original) OR (d IS NULL).     *)
prepareSoftDeleteWrapped(softDelete, filters) ==
    IF softDelete = Nil THEN filters
    ELSE LET newGroup ==
                 GroupFilter(<<Filter(softDelete, NULL, ComparatorIsNull, OperatorOr)>>,
                             OperatorOr)
         IN  IF Len(filters.Filters) > 0
             THEN GroupFilter(<<filters, newGroup>>, OperatorOr)
             ELSE newGroup

(* prepareSoftDelete: src/sql.go:1126-1154.                                 *)
prepareSoftDelete(softDelete, filters) ==
    IF softDelete = Nil THEN filters
    ELSE LET newGroup ==
                 GroupFilter(<<Filter(softDelete, NULL, ComparatorIsNull, OperatorOr)>>,
                             OperatorOr)
         IN  IF Len(filters.Filters) > 0
             THEN [filters EXCEPT !.Filters = Append(@, newGroup)]
             ELSE newGroup

----------------------------------------------------------------------------
(* The database behind *sql.DB.  Every entity table has the same physical   *)
(* columns; a row is a record over them.                                    *)
Columns == <<"id", "parent_id", "name", "created_at", "updated_at",
             "deleted_at", "removed_at">>

ColumnSet == {Columns[i] : i \in 1..Len(Columns)}

(* The pivot table of the users-roles relation has its own two columns.     *)
PivotTable == "role_user"

Schema(table) == IF table = PivotTable THEN {"user_id", "role_id"} ELSE ColumnSet

(* The server folds unquoted identifiers to lower case.                     *)
FoldIdent(key) ==
    CASE key = "Id" -> "id" [] key = "ParentId" -> "parentid" [] key = "Name" -> "name"
      [] OTHER -> key

PhArgs(toks, args) == {args[toks[i].n] : i \in {j \in 1..Len(toks) : toks[j].k = "ph"}}

(* One comparison against a row; a comparison with NULL is not true.        *)
EvalAtom(toks, args, row) == 
    LET cmp == toks[2].s
        Compare(v, phs) ==
            CASE cmp = ComparatorIsNull    -> v = NULL
              [] cmp = ComparatorIsNotNull -> v # NULL
              [] cmp = ComparatorIn        -> v # NULL /\ v \in phs
              [] cmp = ComparatorNotIn     -> v # NULL /\ NULL \notin phs /\ v \notin phs
              [] cmp = ComparatorEqual     ->
                     v # NULL /\ args[toks[3].n] # NULL /\ v = args[toks[3].n]
              [] cmp = ComparatorNotEqual  ->
                     v # NULL /\ args[toks[3].n] # NULL /\ v # args[toks[3].n]
              [] OTHER -> FALSE
    IN  Compare(row[FoldIdent(toks[1].s)], PhArgs(toks, args))
RECURSIVE ParseExpr(_, _, _, _)
RECURSIVE ParseOrRest(_, _, _, _, _)
RECURSIVE ParseAndRest(_, _, _, _, _)

AtomEnd(toks, i) ==
    IF toks[i + 1].s \in {ComparatorIsNull, ComparatorIsNotNull} THEN i + 1
    ELSE IF toks[i + 1].s \in {ComparatorIn, ComparatorNotIn}
    THEN CHOOSE j \in (i + 3)..Len(toks) :
             toks[j].k = ")" /\ \A l \in (i + 3)..(j - 1) : toks[l].k # ")"
    ELSE i + 2

ParseFactor(toks, i, args, row) == 
    IF toks[i].k = "("
    THEN LET Close(e) == [v |-> e.v, i |-> e.i + 1]
         IN  Close(ParseExpr(toks, i + 1, args, row))
    ELSE LET Atom(end) == [v |-> EvalAtom(SubSeq(toks, i, end), args, row), i |-> end + 1]
         IN  Atom(AtomEnd(toks, i))
ParseAndRest(toks, left, i, args, row) == 
    IF i <= Len(toks) /\ toks[i] = OpTok(OperatorAnd)
    THEN LET Rest(f) == ParseAndRest(toks, left /\ f.v, f.i, args, row)
         IN  Rest(ParseFactor(toks, i + 1, args, row))
    ELSE [v |-> left, i |-> i]
ParseTerm(toks, i, args, row) == 
    LET Rest(f) == ParseAndRest(toks, f.v, f.i, args, row)
    IN  Rest(ParseFactor(toks, i, args, row))
ParseOrRest(toks, left, i, args, row) == 
    IF i <= Len(toks) /\ toks[i] = OpTok(OperatorOr)
    THEN LET Rest(t) == ParseOrRest(toks, left \/ t.v, t.i, args, row)
         IN  Rest(ParseTerm(toks, i + 1, args, row))
    ELSE [v |-> left, i |-> i]
ParseExpr(toks, i, args, row) == 
    LET Rest(t) == ParseOrRest(toks, t.v, t.i, args, row)
    IN  Rest(ParseTerm(toks, i, args, row))
EvalExpr(toks, args, row) == ParseExpr(toks, 1, args, row).v

Matches(where, args, row) == where = <<>> \/ EvalExpr(where, args, row)

(* What the server accepts: every column exists, no IN list is empty, and   *)
(* the placeholders of the text are exactly $1..$len(args).                 *)
StmtTokens(stmt) == stmt.set \o stmt.where

ValidStmt(stmt) ==
    LET toks == StmtTokens(stmt)
    IN  /\ \A i \in 1..Len(toks) :
               toks[i].k = "key" => FoldIdent(toks[i].s) \in Schema(stmt.table)
        /\ \A i \in 1..(Len(toks) - 1) : ~(toks[i].k = "(" /\ toks[i + 1].k = ")")
        /\ {toks[i].n : i \in {j \in 1..Len(toks) : toks[j].k = "ph"}}
             = 1..Len(stmt.args)
        /\ \A i \in 1..Len(stmt.cols) :
               stmt.cols[i] = "*" \/ FoldIdent(stmt.cols[i]) \in Schema(stmt.table)

ErrNone      == ""
ErrDriver    == "driver error"
ErrCanceled  == "context canceled"
ErrNoDocumentsFound == "no documents found"

(* Rows in ORDER BY order: ascending puts NULL last, descending first.      *)
SortKey(row, col) == IF row[col] = NULL THEN 1000000 ELSE row[col]

RECURSIVE OrderBy(_, _, _)
OrderBy(rs, col, dir) ==
    IF rs = <<>> THEN <<>>
    ELSE LET best == CHOOSE i \in 1..Len(rs) :
                        \A j \in 1..Len(rs) :
                            IF dir = "DESC"
                            THEN \/ SortKey(rs[j], col) < SortKey(rs[i], col)
                                 \/ (SortKey(rs[j], col) = SortKey(rs[i], col) /\ i <= j)
                            ELSE \/ SortKey(rs[i], col) < SortKey(rs[j], col)
                                 \/ (SortKey(rs[i], col) = SortKey(rs[j], col) /\ i <= j)
         IN  <<rs[best]>>
               \o OrderBy([k \in 1..(Len(rs) - 1) |-> IF k < best THEN rs[k] ELSE rs[k + 1]],
                          col, dir)

(* QueryContext / QueryRowContext of a SELECT.                              *)
ExecSelect(stmt, table, ctxOk) == 
    IF ~ctxOk THEN [err |-> ErrCanceled, rows |-> <<>>]
    ELSE IF ~ValidStmt(stmt) THEN [err |-> ErrDriver, rows |-> <<>>]
    ELSE LET IsMatch(r) == Matches(stmt.where, stmt.args, r)
             Limit(skipped) ==
                 [err |-> ErrNone,
                  rows |-> IF stmt.limit > 0 /\ stmt.limit < Len(skipped)
                           THEN SubSeq(skipped, 1, stmt.limit)
                           ELSE skipped]
             Skip(ordered) ==
                 Limit(IF stmt.offset > 0
                       THEN SubSeq(ordered, stmt.offset + 1, Len(ordered))
                       ELSE ordered)
             Order(hit) ==
                 Skip(IF stmt.order = <<>> THEN hit
                      ELSE OrderBy(hit, stmt.order[1], stmt.order[2]))
         IN  Order(SelectSeq(table, IsMatch))
SetPairs(stmt) ==
    {<<stmt.set[i].s, stmt.args[stmt.set[i + 2].n]>> :
        i \in {j \in 1..Len(stmt.set) : stmt.set[j].k = "key"}}

ExecUpdate(stmt, table, ctxOk) == 
    IF ~ctxOk THEN [err |-> ErrCanceled, table |-> table, affected |-> 0]
    ELSE IF ~ValidStmt(stmt) THEN [err |-> ErrDriver, table |-> table, affected |-> 0]
    ELSE LET Assign(r, pairs) ==
                 [col \in ColumnSet |->
                     IF \E p \in pairs : p[1] = col
                     THEN (CHOOSE p \in pairs : p[1] = col)[2]
                     ELSE r[col]]
             Apply(hit, pairs) ==
                 [err |-> ErrNone,
                  table |-> [i \in 1..Len(table) |->
                                IF i \in hit THEN Assign(table[i], pairs) ELSE table[i]],
                  affected |-> Cardinality(hit)]
         IN  Apply({i \in 1..Len(table) : Matches(stmt.where, stmt.args, table[i])},
                   SetPairs(stmt))
ExecDelete(stmt, table, ctxOk) == 
    IF ~ctxOk THEN [err |-> ErrCanceled, table |-> table, affected |-> 0]
    ELSE IF ~ValidStmt(stmt) THEN [err |-> ErrDriver, table |-> table, affected |-> 0]
    ELSE LET Keep(r) == ~Matches(stmt.where, stmt.args, r)
             Result(kept) ==
                 [err |-> ErrNone, table |-> kept, affected |-> Len(table) - Len(kept)]
         IN  Result(SelectSeq(table, Keep))
Stmt(verb, table, cols, set, where, order, limit, offset, args) ==
    [verb |-> verb, table |-> table, cols |-> cols, set |-> set, where |-> where,
     order |-> order, limit |-> limit, offset |-> offset, args |-> args]

----------------------------------------------------------------------------
(* models.Options.  A nil *Options is the record with nil = TRUE; a nil     *)
(* *[]string Columns is <<>>.  OrderDir is kept as its characters so that   *)
(* strings.ToUpper has something to do.  A relation path is the sequence of *)
(* the dot-free segments of its dotted string.                              *)
Options(columns, limit, offset, orderColumn, orderDir, relations) ==
    [nil |-> FALSE, Columns |-> columns, Limit |-> limit, Offset |-> offset,
     OrderColumn |-> orderColumn, OrderDir |-> orderDir, Relations |-> relations]

NilOptions == [Options(<<>>, 0, 0, "", <<>>, <<>>) EXCEPT !.nil = TRUE]

ZeroOptions == Options(<<>>, 0, 0, "", <<>>, <<>>)

UpperChar(ch) ==
    CASE ch = "a" -> "A" [] ch = "c" -> "C" [] ch = "d" -> "D"
      [] ch = "e" -> "E" [] ch = "i" -> "I" [] ch = "n" -> "N"
      [] ch = "p" -> "P" [] ch = "s" -> "S" [] OTHER -> ch

ToUpper(str) == [i \in 1..Len(str) |-> UpperChar(str[i])]

(* strings.Contains(relation, ".") and strings.Split(relation, ".")         *)
ContainsDot(relation) == Len(relation) > 1

SplitDots(relation) == [i \in 1..Len(relation) |-> <<relation[i]>>]

(* An entity: the scanned columns plus its relation container fields.       *)
ContainerFields == {"User", "Roles", "Permissions"}

NewModel(fields) == [f |-> fields, c |-> [x \in ContainerFields |-> <<>>]]

(* scanRow over the projected columns: src/sql.go:544-576.  The entity      *)
(* hands out one destination per physical column, in column order.          *)
scanRow(row, cols) ==
    IF cols # <<"*">> /\ Len(cols) # Len(Columns)
    THEN [err |-> "failed to scan data", model |-> NewModel(row)]
    ELSE [err |-> ErrNone,
          model |-> NewModel([col \in ColumnSet |->
                       IF cols = <<"*">> THEN row[col]
                       ELSE row[cols[CHOOSE i \in 1..Len(Columns) : Columns[i] = col]]])]

CallLog(fn, c, opts) == [fn |-> fn, repo |-> c, nil |-> opts.nil, Relations |-> opts.Relations]

GetResult(models, err, sent, calls) ==
    [models |-> models, err |-> err, sent |-> sent, calls |-> calls]

RECURSIVE Get(_, _, _, _)

(* GetOne: src/sql.go:751-772.  optsAfter is the caller's record after the  *)
(* call (the code writes Limit through the pointer).                        *)
GetOne(c, filters, opts, env) == 
    LET opts1 == IF opts.nil THEN [ZeroOptions EXCEPT !.Limit = 1]
                 ELSE [opts EXCEPT !.Limit = 1]
        First(got) ==
            [models |-> IF got.err = ErrNone /\ Len(got.models) > 0
                        THEN <<got.models[1]>> ELSE <<>>,
             err |-> IF got.err # ErrNone THEN got.err
                     ELSE IF Len(got.models) = 0 THEN ErrNoDocumentsFound
                     ELSE ErrNone,
             sent |-> got.sent,
             calls |-> <<CallLog("GetOne", c, opts)>> \o got.calls,
             optsAfter |-> IF opts.nil THEN opts ELSE [opts EXCEPT !.Limit = 1]]
    IN  First(Get(c, filters, opts1, env))
OnetoManyLoader(repo, parentField, childFkField, containerField) ==
    [kind |-> "OnetoMany", Repository |-> repo, ParentField |-> parentField,
     ChildFkField |-> childFkField, ContainerField |-> containerField]

OnetoOneLoader(repo, parentField, childFkField, containerField) ==
    [kind |-> "OnetoOne", Repository |-> repo, ParentField |-> parentField,
     ChildFkField |-> childFkField, ContainerField |-> containerField]

ManyToManyLoader(repo, parentKey, childKey, pivoteParentKey, pivoteChildKey, pivoteTable, containerField) ==
    [kind |-> "ManyToMany", Repository |-> repo, ParentKey |-> parentKey,
     ChildKey |-> childKey, PivoteParentKey |-> pivoteParentKey,
     PivoteChildKey |-> pivoteChildKey, PivoteTable |-> pivoteTable,
     ContainerField |-> containerField]

(* reflect's FieldByName on an entity: the struct field of each column.     *)
GoFields == {"Id", "ParentId", "Name"}

FieldColumn(field) ==
    CASE field = "Id" -> "id" [] field = "ParentId" -> "parent_id" [] field = "Name" -> "name"

FieldValue(model, field) == model.f[FieldColumn(field)]

(* The kind of each container field: *Child, []Child, *[]Child.             *)
ContainerKind(field) ==
    CASE field = "User" -> "ptr" [] field = "Roles" -> "slice"
      [] field = "Permissions" -> "ptrslice"

SliceKinds == {"slice", "ptrslice"}

(* prepareForeignKey: src/sql.go:1156-1173, on the characters of the name.  *)
Chars(str) ==
    CASE str = "id" -> <<"i", "d">>
      [] str = "parent_id" -> <<"p", "a", "r", "e", "n", "t", "_", "i", "d">>
      [] str = "name" -> <<"n", "a", "m", "e">>
      [] str = "Id" -> <<"I", "d">>
      [] str = "ParentId" -> <<"P", "a", "r", "e", "n", "t", "I", "d">>
      [] str = "Name" -> <<"N", "a", "m", "e">>
      [] OTHER -> <<"?">>

Str(cs) ==
    LET known == {n \in {"id", "parent_id", "name", "Id", "ParentId", "Name"} : Chars(n) = cs}
    IN  IF known = {} THEN "?" ELSE CHOOSE n \in known : TRUE

prepareForeignKeyChars(cs) ==
    LET Out[i \in 0..Len(cs)] ==
            IF i = 0 THEN <<>>
            ELSE IF cs[i] = "_" THEN Out[i - 1]
            ELSE IF i = 1 \/ cs[i - 1] = "_" THEN Append(Out[i - 1], UpperChar(cs[i]))
            ELSE Append(Out[i - 1], cs[i])
    IN  Out[Len(cs)]

prepareForeignKey(str) == Str(prepareForeignKeyChars(Chars(str)))

LoadResult(err, parents, sent, calls) ==
    [err |-> err, parents |-> parents, sent |-> sent, calls |-> calls]

ChildOptions(childs) ==
    IF Len(childs) > 0 THEN [ZeroOptions EXCEPT !.Relations = childs] ELSE ZeroOptions

(* The loader appending every child to every parent.                       *)
OnetoManyLoadUnmatched(l, parents, childs, env) ==
    IF Len(parents) = 0 THEN LoadResult(ErrNone, parents, <<>>, <<>>)
    ELSE IF l.ParentField \notin GoFields
    THEN LoadResult("invalid parent field", parents, <<>>, <<>>)
    ELSE LET parentIds == [i \in 1..Len(parents) |-> FieldValue(parents[i], l.ParentField)]
             filters   == GroupFilter(
                              <<FilterMultipleValue(l.ChildFkField, parentIds, ComparatorIn)>>,
                              "")
             fk        == prepareForeignKey(l.ChildFkField)
             Assign(got, ids, key) ==
                 LET Mine(p) == LET IsMine(ch) == TRUE
                                IN  SelectSeq(got.models, IsMine)
                 IN  IF got.err # ErrNone
                     THEN LoadResult("failed to get child models", parents, got.sent, got.calls)
                     ELSE IF Len(got.models) > 0 /\ key \notin GoFields
                     THEN LoadResult("invalid child foreign key field", parents,
                                     got.sent, got.calls)
                     ELSE IF \A p \in 1..Len(parents) : Mine(p) = <<>>
                     THEN LoadResult(ErrNone, parents, got.sent, got.calls)
                     ELSE IF l.ContainerField \notin ContainerFields
                     THEN LoadResult("invalid container field", parents, got.sent, got.calls)
                     ELSE IF ContainerKind(l.ContainerField) \notin SliceKinds
                     THEN LoadResult("container field is not a slice", parents,
                                     got.sent, got.calls)
                     ELSE LoadResult(ErrNone,
                              [p \in 1..Len(parents) |->
                                  [parents[p] EXCEPT !.c[l.ContainerField] = @ \o Mine(p)]],
                              got.sent, got.calls)
         IN  Assign(Get(l.Repository, filters, ChildOptions(childs), env), parentIds, fk)

(* OnetoManyLoader.Load: src/sql.go:81-194.                                 *)
OnetoManyLoad(l, parents, childs, env) == 
    IF Len(parents) = 0 THEN LoadResult(ErrNone, parents, <<>>, <<>>)
    ELSE IF l.ParentField \notin GoFields
    THEN LoadResult("invalid parent field", parents, <<>>, <<>>)
    ELSE LET parentIds == [i \in 1..Len(parents) |-> FieldValue(parents[i], l.ParentField)]
             filters   == GroupFilter(
                              <<FilterMultipleValue(l.ChildFkField, parentIds, ComparatorIn)>>,
                              "")
             fk        == prepareForeignKey(l.ChildFkField)
             Assign(got, ids, key) ==
                 LET Mine(p) == LET IsMine(ch) == FieldValue(ch, key) = ids[p]
                                IN  SelectSeq(got.models, IsMine)
                 IN  IF got.err # ErrNone
                     THEN LoadResult("failed to get child models", parents, got.sent, got.calls)
                     ELSE IF Len(got.models) > 0 /\ key \notin GoFields
                     THEN LoadResult("invalid child foreign key field", parents,
                                     got.sent, got.calls)
                     ELSE IF \A p \in 1..Len(parents) : Mine(p) = <<>>
                     THEN LoadResult(ErrNone, parents, got.sent, got.calls)
                     ELSE IF l.ContainerField \notin ContainerFields
                     THEN LoadResult("invalid container field", parents, got.sent, got.calls)
                     ELSE IF ContainerKind(l.ContainerField) \notin SliceKinds
                     THEN LoadResult("container field is not a slice", parents,
                                     got.sent, got.calls)
                     ELSE LoadResult(ErrNone,
                              [p \in 1..Len(parents) |->
                                  [parents[p] EXCEPT !.c[l.ContainerField] = @ \o Mine(p)]],
                              got.sent, got.calls)
         IN  Assign(Get(l.Repository, filters, ChildOptions(childs), env), parentIds, fk)

PivotStmt(m, parentModelsIds) ==
    Stmt("SELECT", m.PivoteTable, <<m.PivoteParentKey, m.PivoteChildKey>>, <<>>,
         <<KeyTok(m.PivoteParentKey), CmpTok(ComparatorIn), LParen>>
            \o MultiPlaceholders(parentModelsIds, 1, 1) \o <<RParen>>,
         <<>>, 0, 0, parentModelsIds)

(* ManyToManyLoader.Load: src/sql.go:196-459.                               *)
ManyToManyLoad(m, parents, childs, env) == 
    IF Len(parents) = 0 THEN LoadResult(ErrNone, parents, <<>>, <<>>)
    ELSE IF m.ParentKey \notin GoFields
    THEN LoadResult("invalid parent key field", parents, <<>>, <<>>)
    ELSE LET parentModelsIds ==
                 [i \in 1..Len(parents) |-> FieldValue(parents[i], m.ParentKey)]
             \* listChildForParent[childId]: the parent ids of the pivot rows of childId
             ParentsOf(rows, childId) ==
                 LET IsOf(r) == r[m.PivoteChildKey] = childId
                     Keys(hit) == [i \in 1..Len(hit) |-> hit[i][m.PivoteParentKey]]
                 IN  Keys(SelectSeq(rows, IsOf))
             Times(rows, ch, pid) ==
                 LET Hits(ps) == Cardinality({i \in 1..Len(ps) : ps[i] = pid})
                 IN  Hits(ParentsOf(rows, FieldValue(ch, m.ChildKey)))
             \* finalContainerChilds[parentId]
             Assign(got, rows, ids, pstmt) ==
                 LET Final(pid) ==
                         LET F[i \in 0..Len(got.models)] ==
                                 IF i = 0 THEN <<>>
                                 ELSE F[i - 1] \o [k \in 1..Times(rows, got.models[i], pid)
                                                     |-> got.models[i]]
                         IN  F[Len(got.models)]
                 IN  IF got.err # ErrNone
                     THEN LoadResult("failed to get child models", parents,
                                     <<pstmt>> \o got.sent, got.calls)
                     ELSE IF Len(got.models) > 0 /\ m.ChildKey \notin GoFields
                     THEN LoadResult("invalid child key field", parents,
                                     <<pstmt>> \o got.sent, got.calls)
                     ELSE IF \A p \in 1..Len(parents) : Final(ids[p]) = <<>>
                     THEN LoadResult(ErrNone, parents, <<pstmt>> \o got.sent, got.calls)
                     ELSE IF m.ContainerField \notin ContainerFields
                     THEN LoadResult("invalid container field", parents,
                                     <<pstmt>> \o got.sent, got.calls)
                     ELSE IF ContainerKind(m.ContainerField) \notin SliceKinds
                     THEN LoadResult("container field is not a slice", parents,
                                     <<pstmt>> \o got.sent, got.calls)
                     ELSE LoadResult(ErrNone,
                              [p \in 1..Len(parents) |->
                                  IF Final(ids[p]) = <<>> THEN parents[p]
                                  ELSE [parents[p] EXCEPT
                                           !.c[m.ContainerField] = Final(ids[p])]],
                              <<pstmt>> \o got.sent, got.calls)
             Children(piv, ids, pstmt) ==
                 IF piv.err # ErrNone
                 THEN LoadResult("failed to query pivot table", parents, <<pstmt>>, <<>>)
                 ELSE Assign(Get(m.Repository,
                                 GroupFilter(
                                     <<FilterMultipleValue(m.ChildKey,
                                          [i \in 1..Len(piv.rows) |->
                                              piv.rows[i][m.PivoteChildKey]],
                                          ComparatorIn)>>,
                                     ""),
                                 ChildOptions(childs), env),
                             piv.rows, ids, pstmt)
             Pivot(ids, pstmt) ==
                 Children(ExecSelect(pstmt, env.db[m.PivoteTable], env.ctxOk), ids, pstmt)
         IN  Pivot(parentModelsIds, PivotStmt(m, parentModelsIds))

(* The loader working on the last parent instead of the first.            *)
OnetoOneLoadLast(l, parents, childs, env) ==
    IF Len(parents) = 0 THEN LoadResult(ErrNone, parents, <<>>, <<>>)
    ELSE IF l.ParentField \notin GoFields
    THEN LoadResult("invalid parent field", parents, <<>>, <<>>)
    ELSE LET parentId    == FieldValue(parents[Len(parents)], l.ParentField)
             filterChild == GroupFilter(<<Filter(l.ChildFkField, parentId, Nil, Nil)>>, "")
             Assign(got) ==
                 IF got.err # ErrNone
                 THEN LoadResult("failed to load child model", parents, got.sent, got.calls)
                 ELSE IF l.ContainerField \notin ContainerFields
                 THEN LoadResult("invalid container field", parents, got.sent, got.calls)
                 ELSE IF ContainerKind(l.ContainerField) \in SliceKinds
                 THEN LoadResult("child type does not match container field type",
                                 parents, got.sent, got.calls)
                 ELSE LoadResult(ErrNone,
                          [parents EXCEPT ![Len(parents)].c[l.ContainerField] = got.models],
                          got.sent, got.calls)
         IN  Assign(GetOne(l.Repository, filterChild, ChildOptions(childs), env))

(* OnetoOneLoader.Load: src/sql.go:461-542.                                *)
OnetoOneLoad(l, parents, childs, env) == 
    IF Len(parents) = 0 THEN LoadResult(ErrNone, parents, <<>>, <<>>)
    ELSE IF l.ParentField \notin GoFields
    THEN LoadResult("invalid parent field", parents, <<>>, <<>>)
    ELSE LET parentId    == FieldValue(parents[1], l.ParentField)
             filterChild == GroupFilter(<<Filter(l.ChildFkField, parentId, Nil, Nil)>>, "")
             Assign(got) ==
                 IF got.err # ErrNone
                 THEN LoadResult("failed to load child model", parents, got.sent, got.calls)
                 ELSE IF l.ContainerField \notin ContainerFields
                 THEN LoadResult("invalid container field", parents, got.sent, got.calls)
                 ELSE IF ContainerKind(l.ContainerField) \in SliceKinds
                 THEN LoadResult("child type does not match container field type",
                                 parents, got.sent, got.calls)
                 ELSE LoadResult(ErrNone,
                          [parents EXCEPT ![1].c[l.ContainerField] = got.models],
                          got.sent, got.calls)
         IN  Assign(GetOne(l.Repository, filterChild, ChildOptions(childs), env))
(* A loader that queries its child repository before looking at the        *)
(* parent list.                                                             *)
LoadUnguarded(loader, parents, childs, env) ==
    LET Probe(r) ==
            IF Len(parents) = 0
            THEN [r EXCEPT !.sent = <<Stmt("SELECT", loader.Repository, <<"*">>, <<>>,
                                           <<>>, <<>>, 0, 0, <<>>)>>]
            ELSE r
    IN  Probe(CASE loader.kind = "OnetoMany"  -> OnetoManyLoad(loader, parents, childs, env)
                [] loader.kind = "ManyToMany" -> ManyToManyLoad(loader, parents, childs, env)
                [] loader.kind = "OnetoOne"   -> OnetoOneLoad(loader, parents, childs, env))

(* The dispatch of loader.Load: src/sql.go:742.                             *)
Load(loader, parents, childs, env) ==
    CASE loader.kind = "OnetoMany"  -> OnetoManyLoad(loader, parents, childs, env)
      [] loader.kind = "ManyToMany" -> ManyToManyLoad(loader, parents, childs, env)
      [] loader.kind = "OnetoOne"   -> OnetoOneLoad(loader, parents, childs, env)

(* The loop over opts.Relations: src/sql.go:729-745.                        *)
RECURSIVE RelationLoop(_, _, _, _, _, _, _)
RelationLoop(c, relations, i, models, sent, calls, env) == 
    IF i > Len(relations) THEN GetResult(models, ErrNone, sent, calls)
    ELSE LET relation == IF ContainsDot(relations[i])
                         THEN SplitDots(relations[i])[1][1] ELSE relations[i][1]
             childs   == IF ContainsDot(relations[i])
                         THEN SubSeq(SplitDots(relations[i]), 2, Len(relations[i]))
                         ELSE <<>>
             Lookup(loaders, name) ==
                 IF name \notin DOMAIN loaders.m
                 THEN GetResult(<<>>, "relation loader not found", sent, calls)
                 ELSE LET Go(ld) ==
                              IF ld.err # ErrNone
                              THEN GetResult(<<>>, "failed to load relation",
                                             sent \o ld.sent, calls \o ld.calls)
                              ELSE RelationLoop(c, relations, i + 1, ld.parents,
                                                sent \o ld.sent, calls \o ld.calls, env)
                      IN  Go(Load(loaders.m[name], models, childs, env))
         IN  Lookup(env.conn[c].RelationLoaders, relation)
ScanAll(rs, cols) == 
    LET Collect(scanned) ==
            IF \E i \in 1..Len(scanned) : scanned[i].err # ErrNone
            THEN [err |-> "failed to scan data", models |-> <<>>]
            ELSE [err |-> ErrNone, models |-> [i \in 1..Len(scanned) |-> scanned[i].model]]
    IN  Collect([i \in 1..Len(rs) |-> scanRow(rs[i], cols)])
OrderDirection(opts) ==
    IF ToUpper(opts.OrderDir) = <<"D", "E", "S", "C">> THEN "DESC" ELSE "ASC"

(* The whitelist test left out.                                             *)
OrderColumnAllowedAny(cn, opts) == TRUE

(* The whitelist test: src/sql.go:668.                                      *)
OrderColumnAllowed(cn, opts) == opts.OrderColumn \in cn.OrderColumns

(* Connection.Get: src/sql.go:628-749.                                      *)
Get(c, filters, opts, env) == 
    LET cn      == env.conn[c]
        filt    == IF cn.SoftDelete # Nil THEN prepareSoftDelete(cn.SoftDelete, filters)
                   ELSE filters
        cols    == IF ~opts.nil /\ opts.Columns # <<>> THEN opts.Columns ELSE <<"*">>
        ordered == ~opts.nil /\ opts.OrderColumn # ""
        Build(pf) ==
            Stmt("SELECT", cn.Table, cols, <<>>, pf.q,
                 IF ordered THEN <<opts.OrderColumn, OrderDirection(opts)>> ELSE <<>>,
                 IF ~opts.nil /\ opts.Limit > 0 THEN opts.Limit ELSE 0,
                 IF ~opts.nil /\ opts.Offset > 0 THEN opts.Offset ELSE 0,
                 IF pf.q # <<>> THEN pf.vals ELSE <<>>)
        Hydrate(scn, stmt, me) ==
            IF scn.err # ErrNone THEN GetResult(<<>>, scn.err, <<stmt>>, me)
            ELSE IF ~opts.nil /\ Len(opts.Relations) > 0 /\ ~cn.RelationLoaders.nil
            THEN RelationLoop(c, opts.Relations, 1, scn.models, <<stmt>>, me, env)
            ELSE GetResult(scn.models, ErrNone, <<stmt>>, me)
        Scan(res, stmt, me) ==
            IF res.err # ErrNone THEN GetResult(<<>>, res.err, <<stmt>>, me)
            ELSE Hydrate(ScanAll(res.rows, cols), stmt, me)
        Query(stmt, me) ==
            IF ordered /\ ~OrderColumnAllowed(cn, opts)
            THEN GetResult(<<>>, "invalid order column", <<>>, me)
            ELSE Scan(ExecSelect(stmt, env.db[cn.Table], env.ctxOk), stmt, me)
    IN  Query(Build(prepareFilters(filt, 1)), <<CallLog("Get", c, opts)>>)
CountNoSoftDelete(c, filters, env) == 
    LET cn   == env.conn[c]
        filt == filters
        Build(pf) ==
            Stmt("COUNT", cn.Table, <<"*">>, <<>>, pf.q, <<>>, 0, 0,
                 IF pf.q # <<>> THEN pf.vals ELSE <<>>)
        Scan(res, stmt) ==
            [count |-> IF res.err # ErrNone THEN 0 ELSE Len(res.rows),
             err |-> res.err, sent |-> <<stmt>>]
        Query(stmt) == Scan(ExecSelect(stmt, env.db[cn.Table], env.ctxOk), stmt)
    IN  Query(Build(prepareFilters(filt, 1)))
Count(c, filters, env) == 
    LET cn   == env.conn[c]
        filt == IF cn.SoftDelete # Nil THEN prepareSoftDelete(cn.SoftDelete, filters)
                ELSE filters
        Build(pf) ==
            Stmt("COUNT", cn.Table, <<"*">>, <<>>, pf.q, <<>>, 0, 0,
                 IF pf.q # <<>> THEN pf.vals ELSE <<>>)
        Scan(res, stmt) ==
            [count |-> IF res.err # ErrNone THEN 0 ELSE Len(res.rows),
             err |-> res.err, sent |-> <<stmt>>]
        Query(stmt) == Scan(ExecSelect(stmt, env.db[cn.Table], env.ctxOk), stmt)
    IN  Query(Build(prepareFilters(filt, 1)))
SetPartsReversed(keys) ==
    LET F[i \in 0..Len(keys)] ==
            IF i = 0 THEN <<>>
            ELSE F[i - 1] \o (IF i > 1 THEN <<Comma>> ELSE <<>>)
                   \o <<KeyTok(keys[i]), CmpTok("="), PhTok(Len(keys) - i + 1)>>
    IN  F[Len(keys)]

(* The SET list of Update in the iteration order `keys` of the payload map: *)
(* src/sql.go:922-929.                                                      *)
SetParts(keys) ==
    LET F[i \in 0..Len(keys)] ==
            IF i = 0 THEN <<>>
            ELSE F[i - 1] \o (IF i > 1 THEN <<Comma>> ELSE <<>>)
                   \o <<KeyTok(keys[i]), CmpTok("="), PhTok(i)>>
    IN  F[Len(keys)]

(* The payload after delete(data, "id"), delete(data, "created_at") and     *)
(* data["updated_at"] = time.Now(): src/sql.go:917-920.                     *)
UpdatePayload(data, t) ==
    [k \in (DOMAIN data \ {"id", "created_at"}) \cup {"updated_at"} |->
        IF k = "updated_at" THEN t ELSE data[k]]

(* Connection.Update: src/sql.go:911-968.  keys is the order in which range *)
(* visits the payload map; t is the clock reading.                          *)
Update(c, filters, data, keys, t, env) == 
    LET cn   == env.conn[c]
        filt == IF cn.SoftDelete # Nil THEN prepareSoftDelete(cn.SoftDelete, filters)
                ELSE filters
        pay  == UpdatePayload(data, t)
        vals == [i \in 1..Len(keys) |-> pay[keys[i]]]
        Build(pf) ==
            Stmt("UPDATE", cn.Table, <<>>, SetParts(keys), pf.q, <<>>, 0, 0,
                 IF pf.q # <<>> THEN vals \o pf.vals ELSE vals)
        Reread(one, stmt, table) ==
            [models |-> one.models, err |-> one.err, sent |-> <<stmt>> \o one.sent,
             db |-> [env.db EXCEPT ![cn.Table] = table]]
        Done(res, stmt) ==
            IF res.err # ErrNone
            THEN [models |-> <<>>, err |-> res.err, sent |-> <<stmt>>, db |-> env.db]
            ELSE Reread(GetOne(c, filt, NilOptions, [env EXCEPT !.db[cn.Table] = res.table]),
                        stmt, res.table)
        Exec(stmt) == Done(ExecUpdate(stmt, env.db[cn.Table], env.ctxOk), stmt)
    IN  Exec(Build(prepareFilters(filt, Len(keys) + 1)))
Delete(c, filters, keys, t, env) == 
    LET cn == env.conn[c]
        Soft(up) == [err |-> ErrNone, inner |-> up.err, sent |-> up.sent, db |-> up.db]
        Build(pf) == Stmt("DELETE", cn.Table, <<>>, <<>>, pf.q, <<>>, 0, 0, pf.vals)
        Done(res, stmt) ==
            [err |-> IF res.err # ErrNone THEN res.err
                     ELSE IF res.affected = 0 THEN ErrNoDocumentsFound
                     ELSE ErrNone,
             inner |-> ErrNone, sent |-> <<stmt>>,
             db |-> [env.db EXCEPT ![cn.Table] = res.table]]
        Exec(stmt) == Done(ExecDelete(stmt, env.db[cn.Table], env.ctxOk), stmt)
    IN  IF cn.SoftDelete # Nil
        THEN Soft(Update(c, filters, [k \in {"deleted_at"} |-> t], keys, t + 1, env))
        ELSE Exec(Build(prepareFilters(filters, 1)))
----------------------------------------------------------------------------
(* Bounded universes of filter trees.                                       *)
MaxLen     == 3   \* children of the top-level group
MaxInner   == 2   \* children of a nested group
MaxCounter == 2   \* starting placeholder index

NameA == 10
NameB == 11
RawPositionPlus1 == 900   \* RawSQL("position + 1"), README "Update con expresiones raw"

SeqsUpTo(S, n) == UNION {[1..k -> S] : k \in 0..n}

Leaves ==
    { Filter("name", NameA, Nil, Nil),
      Filter("deleted_at", NULL, ComparatorIsNull, Nil),
      Filter("id", 3, ComparatorIn, Nil),
      Filter("id", 3, ComparatorNotEqual, OperatorOr),
      FilterMultipleValue("id", <<1, 2>>, Nil),
      FilterMultipleValue("id", <<>>, ComparatorNotIn),
      FilterMultipleValue("name", <<NameB>>, ComparatorEqual),
      OtherNode }

InnerLeaves ==
    { Filter("name", NameA, Nil, Nil),
      Filter("id", 3, ComparatorIn, Nil),
      FilterMultipleValue("id", <<1, 2>>, Nil) }

InnerGroups ==
    { GroupFilter(fs, op) : fs \in SeqsUpTo(InnerLeaves, MaxInner),
                            op \in {"", OperatorOr} }

FilterTrees ==
    { GroupFilter(fs, op) : fs \in SeqsUpTo(Leaves \cup InnerGroups, MaxLen),
                            op \in {"", OperatorAnd, OperatorOr} }

NoResult == [q |-> <<>>, vals |-> <<>>, counter |-> 0]

----------------------------------------------------------------------------
(* The repositories and their tables.                                       *)
RepoNames == {"sessions", "users", "roles", "permissions"}

NoLoaders == [nil |-> TRUE, m |-> <<>>]

Connection(table, orderColumns, softDelete, relationLoaders) ==
    [Table |-> table, OrderColumns |-> orderColumns, SoftDelete |-> softDelete,
     RelationLoaders |-> relationLoaders]

Row(id, parent, name, deleted, removed) ==
    [id |-> id, parent_id |-> parent, name |-> name, created_at |-> 0,
     updated_at |-> 0, deleted_at |-> deleted, removed_at |-> removed]

Env(ctxOk) == [db |-> db, conn |-> conn, ctxOk |-> ctxOk]

(* The record of one facade call.                                           *)
CallRec(op, c, filters, opts, data, r) ==
    [op |-> op, repo |-> c, filters |-> filters, opts |-> opts, data |-> data,
     sent |-> r.sent, models |-> r.models, count |-> r.count, err |-> r.err,
     inner |-> r.inner, calls |-> r.calls, optsAfter |-> r.optsAfter,
     before |-> db]

NoOutcome ==
    [sent |-> <<>>, models |-> <<>>, count |-> 0, err |-> ErrNone, inner |-> ErrNone,
     calls |-> <<>>, optsAfter |-> NilOptions]

IdleCall ==
    [op |-> "idle", repo |-> "", filters |-> GroupFilter(<<>>, ""), opts |-> NilOptions,
     data |-> <<>>, sent |-> <<>>, models |-> <<>>, count |-> 0, err |-> ErrNone,
     inner |-> ErrNone, calls |-> <<>>, optsAfter |-> NilOptions, before |-> <<>>]

EmptyDb == [t \in RepoNames \cup {PivotTable} |-> <<>>]

PlainConn == [r \in RepoNames |-> Connection(r, {"id", "name"}, Nil, NoLoaders)]

(* SpecFilters: prepareFilters applied to every bounded tree and index.     *)
InitFilters ==
    /\ fin \in [filters : FilterTrees, counter : 1..MaxCounter]
    /\ fout = NoResult
    /\ db = EmptyDb
    /\ conn = PlainConn
    /\ now = 0
    /\ call = IdleCall

Compile ==
    /\ fout = NoResult
    /\ fout' = prepareFilters(fin.filters, fin.counter)
    /\ UNCHANGED <<fin, db, conn, now, call>>

NextFilters == Compile

SpecFilters == InitFilters /\ [][NextFilters]_vars

----------------------------------------------------------------------------
(* Spec: one facade call on the repository "sessions", from every table     *)
(* content over the bounded row domain.                                     *)
NumRows    == 2   \* rows of the table
MaxCrudLen == 2   \* children of the top-level group of a caller's filter

Primary == "sessions"

TombstoneColumns == {"deleted_at", "removed_at"}

CrudNodes ==
    { Filter("name", NameA, Nil, Nil),
      Filter("id", 1, ComparatorIn, Nil),
      FilterMultipleValue("id", <<2>>, Nil),
      FilterMultipleValue("id", <<>>, Nil),
      GroupFilter(<<Filter("name", NameB, Nil, Nil),
                    Filter("deleted_at", NULL, ComparatorIsNotNull, Nil)>>, OperatorOr),
      GroupFilter(<<>>, "") }

CrudFilters ==
    { GroupFilter(fs, op) : fs \in SeqsUpTo(CrudNodes, MaxCrudLen),
                            op \in {"", OperatorOr} }

CrudOptions ==
    { NilOptions,
      Options(<<>>, 1, 0, "", <<>>, <<>>),
      Options(<<>>, 0, 1, "name", <<"d", "e", "s", "c">>, <<>>),
      Options(<<>>, 0, 0, "id", <<"D", "e", "s", "c">>, <<>>),
      Options(<<>>, 0, 0, "name", <<"a", "s", "c">>, <<>>),
      Options(<<>>, 0, 0, "name", <<"d", "e", "s", "c", "e", "n", "d">>, <<>>),
      Options(<<>>, 0, 0, "name; DROP TABLE sessions", <<>>, <<>>),
      Options(<<"id", "name">>, 0, 0, "", <<>>, <<>>),
      Options(<<>>, 0, 0, "", <<>>, << <<"user">> >>) }

Payloads ==
    { [k \in {"name"} |-> NameB],
      [k \in {"name"} |-> RawPositionPlus1],
      [k \in {"name", "id", "created_at"} |-> IF k = "name" THEN NameA ELSE 7],
      [k \in {"updated_at"} |-> 7] }

Perms(S) == {p \in [1..Cardinality(S) -> S] : \A i, j \in 1..Cardinality(S) :
                                                  i # j => p[i] # p[j]}

(* The tombstone column the repository does not use starts out NULL.        *)
InitTables(sd) ==
    { t \in [1..NumRows -> [id : 1..NumRows, parent_id : {1}, name : {NameA, NameB},
                            created_at : {0}, updated_at : {0},
                            deleted_at : {NULL, 0}, removed_at : {NULL, 0}]] :
        \A i \in 1..NumRows :
            /\ t[i].id = i
            /\ sd # "removed_at" => t[i].removed_at = NULL
            /\ sd = "removed_at" => t[i].deleted_at = NULL }

Init ==
    /\ fin = [filters |-> GroupFilter(<<>>, ""), counter |-> 1]
    /\ fout = NoResult
    /\ now = 1
    /\ call = IdleCall
    /\ \E sd \in {Nil} \cup TombstoneColumns :
          /\ conn = [PlainConn EXCEPT ![Primary].SoftDelete = sd]
          /\ \E t \in InitTables(sd) : db = [EmptyDb EXCEPT ![Primary] = t]

DoGet(f, opts, ctxOk) == 
    /\ LET Returned(r) ==
               CallRec("Get", Primary, f, opts, <<>>,
                       [NoOutcome EXCEPT !.sent = r.sent, !.models = r.models,
                                         !.err = r.err, !.calls = r.calls,
                                         !.optsAfter = opts])
       IN  call' = Returned(Get(Primary, f, opts, Env(ctxOk)))
    /\ UNCHANGED <<fin, fout, db, conn, now>>
DoGetOne(f, opts, ctxOk) == 
    /\ LET Returned(r) ==
               CallRec("GetOne", Primary, f, opts, <<>>,
                       [NoOutcome EXCEPT !.sent = r.sent, !.models = r.models,
                                         !.err = r.err, !.calls = r.calls,
                                         !.optsAfter = r.optsAfter])
       IN  call' = Returned(GetOne(Primary, f, opts, Env(ctxOk)))
    /\ UNCHANGED <<fin, fout, db, conn, now>>
DoCount(f, ctxOk) == 
    /\ LET Returned(r) ==
               CallRec("Count", Primary, f, NilOptions, <<>>,
                       [NoOutcome EXCEPT !.sent = r.sent, !.count = r.count,
                                         !.err = r.err])
       IN  call' = Returned(Count(Primary, f, Env(ctxOk)))
    /\ UNCHANGED <<fin, fout, db, conn, now>>
DoUpdate(f, data, ctxOk) == 
    /\ \E keys \in Perms(DOMAIN UpdatePayload(data, now)) :
          LET Returned(r) ==
                  /\ call' = CallRec("Update", Primary, f, NilOptions, data,
                                     [NoOutcome EXCEPT !.sent = r.sent,
                                                       !.models = r.models,
                                                       !.err = r.err])
                  /\ db' = r.db
          IN  Returned(Update(Primary, f, data, keys, now, Env(ctxOk)))
    /\ now' = now + 1
    /\ UNCHANGED <<fin, fout, conn>>
DoDelete(f, ctxOk) == 
    /\ \E keys \in Perms({"deleted_at", "updated_at"}) :
          LET Returned(r) ==
                  /\ call' = CallRec("Delete", Primary, f, NilOptions, <<>>,
                                     [NoOutcome EXCEPT !.sent = r.sent, !.err = r.err,
                                                       !.inner = r.inner])
                  /\ db' = r.db
          IN  Returned(Delete(Primary, f, keys, now, Env(ctxOk)))
    /\ now' = now + 2
    /\ UNCHANGED <<fin, fout, conn>>
CallGet ==
    call.op = "idle" /\ \E f \in CrudFilters, opts \in CrudOptions, ctxOk \in BOOLEAN :
                            DoGet(f, opts, ctxOk)

CallGetOne ==
    call.op = "idle" /\ \E f \in CrudFilters, opts \in CrudOptions, ctxOk \in BOOLEAN :
                            DoGetOne(f, opts, ctxOk)

CallCount ==
    call.op = "idle" /\ \E f \in CrudFilters, ctxOk \in BOOLEAN : DoCount(f, ctxOk)

CallUpdate ==
    call.op = "idle" /\ \E f \in CrudFilters, data \in Payloads, ctxOk \in BOOLEAN :
                            DoUpdate(f, data, ctxOk)

CallDelete ==
    call.op = "idle" /\ \E f \in CrudFilters, ctxOk \in BOOLEAN : DoDelete(f, ctxOk)

Next == CallGet \/ CallGetOne \/ CallCount \/ CallUpdate \/ CallDelete

Spec == Init /\ [][Next]_vars

----------------------------------------------------------------------------
(* SpecRelations: one Get or GetOne with relation paths on the chain        *)
(* sessions -1:1-> users -N:M-> roles -1:N-> permissions.                   *)
MaxSessions == 2   \* rows of the sessions table

RelationConn ==
    [r \in RepoNames |->
        Connection(r, {"id", "name"}, Nil,
            CASE r = "sessions" ->
                   [nil |-> FALSE,
                    m |-> [n \in {"user"} |->
                             OnetoOneLoader("users", "ParentId", "id", "User")]]
              [] r = "users" ->
                   [nil |-> FALSE,
                    m |-> [n \in {"roles"} |->
                             ManyToManyLoader("roles", "Id", "Id", "user_id", "role_id",
                                              PivotTable, "Roles")]]
              [] r = "roles" ->
                   [nil |-> FALSE,
                    m |-> [n \in {"permissions"} |->
                             OnetoManyLoader("permissions", "Id", "parent_id",
                                             "Permissions")]]
              [] OTHER -> NoLoaders)]

(* The same repositories when users also registers a relation named        *)
(* "permissions", the name roles uses one level further down.               *)
RelationConnShared ==
    [RelationConn EXCEPT
        !["users"].RelationLoaders.m =
            [n \in {"roles", "permissions"} |->
                IF n = "roles" THEN RelationConn["users"].RelationLoaders.m["roles"]
                ELSE OnetoManyLoader("permissions", "Id", "parent_id", "Permissions")]]

PivotRows == {[user_id |-> 1, role_id |-> 1], [user_id |-> 1, role_id |-> 2],
              [user_id |-> 2, role_id |-> 2]}

SeqOfSet(S) == CHOOSE q \in [1..Cardinality(S) -> S] : \A x \in S : \E i \in DOMAIN q : q[i] = x

RelationDbs ==
    { [t \in RepoNames \cup {PivotTable} |->
         CASE t = "sessions" -> ss
           [] t = "users" -> <<Row(1, 0, NameA, NULL, NULL), Row(2, 0, NameB, NULL, NULL)>>
           [] t = "roles" -> <<Row(1, 0, NameA, NULL, NULL), Row(2, 0, NameB, NULL, NULL)>>
           [] t = "permissions" -> <<Row(1, 1, NameA, NULL, NULL), Row(2, 2, NameA, NULL, NULL),
                                     Row(3, 1, NameB, NULL, NULL)>>
           [] OTHER -> SeqOfSet(pv)] :
        ss \in {q \in SeqsUpTo({Row(i, u, NameA, NULL, NULL) : i \in 1..MaxSessions,
                                                            u \in {1, 2, 3}}, MaxSessions) :
                   \A i \in 1..Len(q) : q[i].id = i},
        pv \in SUBSET PivotRows }

RelationPaths ==
    { <<>>,
      << <<"user">> >>,
      << <<"user", "roles">> >>,
      << <<"user", "roles", "permissions">> >>,
      << <<"roles", "permissions">> >>,
      << <<"roles">>, <<"permissions">> >>,
      << <<"permissions">> >>,
      << <<"ghost">> >>,
      << <<"user">>, <<"ghost">> >>,
      << <<"ghost", "roles">> >>,
      << <<"roles">> >>,
      << <<"user">>, <<"user">> >>,
      << <<"roles">>, <<"roles">> >>,
      << <<"permissions">>, <<"permissions">> >> }

InitRelations ==
    /\ fin = [filters |-> GroupFilter(<<>>, ""), counter |-> 1]
    /\ fout = NoResult
    /\ now = 1
    /\ call = IdleCall
    /\ conn \in {RelationConn, RelationConnShared}
    /\ db \in RelationDbs

RelGet(c, f, opts, ctxOk) == 
    /\ LET Returned(r) ==
               CallRec("Get", c, f, opts, <<>>,
                       [NoOutcome EXCEPT !.sent = r.sent, !.models = r.models,
                                         !.err = r.err, !.calls = r.calls,
                                         !.optsAfter = opts])
       IN  call' = Returned(Get(c, f, opts, Env(ctxOk)))
    /\ UNCHANGED <<fin, fout, db, conn, now>>
RelGetOne(c, f, opts, ctxOk) == 
    /\ LET Returned(r) ==
               CallRec("GetOne", c, f, opts, <<>>,
                       [NoOutcome EXCEPT !.sent = r.sent, !.models = r.models,
                                         !.err = r.err, !.calls = r.calls,
                                         !.optsAfter = r.optsAfter])
       IN  call' = Returned(GetOne(c, f, opts, Env(ctxOk)))
    /\ UNCHANGED <<fin, fout, db, conn, now>>
RelationFilters ==
    { GroupFilter(<<>>, ""), GroupFilter(<<Filter("name", NameB, Nil, Nil)>>, ""),
      GroupFilter(<<Filter("id", 0, Nil, Nil)>>, "") }

CallRelGet ==
    call.op = "idle" /\ \E c \in RepoNames, f \in RelationFilters, rels \in RelationPaths,
                           ctxOk \in BOOLEAN :
                            RelGet(c, f, [ZeroOptions EXCEPT !.Relations = rels], ctxOk)

CallRelGetOne ==
    call.op = "idle" /\ \E c \in RepoNames, f \in RelationFilters, rels \in RelationPaths,
                           ctxOk \in BOOLEAN :
                            RelGetOne(c, f, [ZeroOptions EXCEPT !.Relations = rels], ctxOk)

NextRelations == CallRelGet \/ CallRelGetOne

SpecRelations == InitRelations /\ [][NextRelations]_vars

----------------------------------------------------------------------------
(* Reading a fragment back: its placeholders and the key each belongs to.   *)
IsPh(t) == t.k = "ph"

PhTokens(q) == SelectSeq(q, IsPh)

PhIndices(q) == [i \in 1..Len(PhTokens(q)) |-> PhTokens(q)[i].n]

(* Position in q of the i-th placeholder.                                   *)
PhPos(q, i) ==
    CHOOSE p \in 1..Len(q) :
        /\ IsPh(q[p])
        /\ Cardinality({j \in 1..p : IsPh(q[j])}) = i

(* The key written last before position p.                                  *)
KeyBefore(q, p) ==
    LET ks == {j \in 1..p : q[j].k = "key"}
    IN  q[CHOOSE j \in ks : \A l \in ks : l <= j].s

(* <<key, value>> bound by the i-th placeholder of fragment q, whose        *)
(* placeholders index the argument list from base n.                        *)
BoundPairs(q, args, n) ==
    [i \in 1..Len(PhTokens(q)) |->
        <<KeyBefore(q, PhPos(q, i)), args[PhTokens(q)[i].n - n + 1]>>]

(* The <<key, value>> pairs a filter tree asks for, in sibling order.       *)
RECURSIVE WantedPairs(_)
WantedPairs(node) ==
    CASE node.type = "Filter" ->
            IF (IF node.Comparator = Nil THEN ComparatorEqual ELSE node.Comparator)
                 \in {ComparatorIsNull, ComparatorIsNotNull, ComparatorIn, ComparatorNotIn}
            THEN <<>> ELSE << <<node.Key, node.Value>> >>
      [] node.type = "FilterMultipleValue" ->
            IF node.Comparator \in {Nil, ComparatorIn, ComparatorNotIn}
            THEN [i \in 1..Len(node.Values) |-> <<node.Key, node.Values[i]>>]
            ELSE <<>>
      [] node.type = "GroupFilter" ->
            LET F[i \in 0..Len(node.Filters)] ==
                    IF i = 0 THEN <<>> ELSE F[i - 1] \o WantedPairs(node.Filters[i])
            IN  F[Len(node.Filters)]
      [] OTHER -> <<>>

(* C1: for every filter tree and starting index n >= 1, the fragment's      *)
(* placeholders are exactly $n, $n+1, ..., $n+k-1 from left to right, the   *)
(* argument list has length k with its i-th value belonging to the i-th     *)
(* placeholder, and nextIndex = n + k.                                      *)
C1_DensePlaceholders ==
    fout # NoResult =>
        LET k == Len(PhTokens(fout.q))
            n == fin.counter
        IN  /\ PhIndices(fout.q) = [i \in 1..k |-> n + i - 1]
            /\ Len(fout.vals) = k
            /\ fout.counter = n + k
            /\ BoundPairs(fout.q, fout.vals, n) = WantedPairs(fin.filters)

(* A tree with a skipped Single, a nested group and a multi-value filter,   *)
(* compiled from an index above 1.                                          *)
C1_Witness ==
    /\ fout # NoResult
    /\ fin.counter > 1
    /\ Len(fout.vals) >= 4
    /\ \E i \in 1..Len(fin.filters.Filters) :
          /\ fin.filters.Filters[i].type = "GroupFilter"
          /\ Len(fin.filters.Filters[i].Filters) = 2
          /\ i < Len(fin.filters.Filters)
    /\ \E i \in 1..Len(fin.filters.Filters) :
          fin.filters.Filters[i] = Filter("id", 3, ComparatorIn, Nil)

----------------------------------------------------------------------------
(* Vocabulary of the claims about one facade call.                          *)
SD == conn[Primary].SoftDelete

IsRead == call.op \in {"Get", "GetOne"}

(* Row r satisfies the caller's filter tree f as compiled on its own.       *)
MatchesFilter(f, r) == 
    LET Holds(pf) == Matches(pf.q, pf.vals, r)
    IN  Holds(prepareFilters(f, 1))
RawValues == {RawPositionPlus1}

FirstSegment(path) == path[1]

(* C2: on a repository with soft-delete column d, no row whose d is         *)
(* non-null is returned by Get or GetOne or counted by Count, for every     *)
(* filter tree and table content.                                           *)
C2_NoTombstonedRowRead ==
    /\ (IsRead /\ SD # Nil /\ call.err = ErrNone) =>
           \A i \in 1..Len(call.models) : call.models[i].f[SD] = NULL
    /\ (call.op = "Count" /\ SD # Nil /\ call.err = ErrNone) =>
           call.count =
               Cardinality({i \in 1..Len(db[Primary]) :
                   /\ Matches(call.sent[1].where, call.sent[1].args, db[Primary][i])
                   /\ db[Primary][i][SD] = NULL})

(* C3: for an entry head.tail of opts.Relations with a non-empty tail, the  *)
(* child Get/GetOne issued by the loader of head receives Relations equal   *)
(* to the one-element list [tail], the tail kept as one dotted string.      *)
C3_TailPassedVerbatim ==
    LET first == IF call.op = "Get" THEN 2 ELSE 3
        path  == call.opts.Relations[1]
    IN  (/\ IsRead
         /\ Len(call.opts.Relations) = 1
         /\ Len(path) > 1
         /\ Len(call.calls) >= first) =>
            call.calls[first].Relations = <<SubSeq(path, 2, Len(path))>>

(* C4: in Update, a payload entry whose value is a RawSQL wrapper is        *)
(* emitted as `col = <raw text>` with no placeholder and adds no value to   *)
(* the argument list; every other entry is emitted as `col = $i`; the       *)
(* placeholders of SET and WHERE stay dense and aligned with the arguments. *)
C4_RawSqlInterpolated ==
    call.op = "Update" =>
        LET st   == call.sent[1]
            keys == {j \in 1..Len(st.set) : st.set[j].k = "key"}
        IN  /\ \A i \in 1..Len(st.args) : st.args[i] \notin RawValues
            /\ \A j \in keys :
                  LET col == st.set[j].s
                  IN  IF col \in DOMAIN call.data /\ call.data[col] \in RawValues
                      THEN st.set[j + 2].k # "ph"
                      ELSE /\ st.set[j + 2].k = "ph"
                           /\ col \in DOMAIN call.data =>
                                  st.args[st.set[j + 2].n] = call.data[col]
            /\ PhIndices(st.set \o st.where) = [i \in 1..Len(st.args) |-> i]

(* C5: a Get or GetOne whose opts.Relations has an entry whose first        *)
(* segment is not a key of the loader map returns an error and has sent no  *)
(* SQL statement at all.                                                    *)
C5_UnknownRelationBeforeSql ==
    (/\ IsRead
     /\ ~call.opts.nil
     /\ \E i \in 1..Len(call.opts.Relations) :
            FirstSegment(call.opts.Relations[i])
                \notin DOMAIN conn[call.repo].RelationLoaders.m) =>
        /\ call.err # ErrNone
        /\ call.sent = <<>>

(* C6: a Get or GetOne with a non-empty OrderColumn outside the allowed set *)
(* returns "invalid order column" and sends no SQL; with a column of the    *)
(* set the statement has ORDER BY <col> <dir>, dir being DESC exactly when  *)
(* OrderDir upper-cases to DESC, ASC otherwise.                             *)
DescSpellings ==
    {<<d, e, s, c>> : d \in {"d", "D"}, e \in {"e", "E"}, s \in {"s", "S"}, c \in {"c", "C"}}

C6_OrderColumnWhitelist ==
    (IsRead /\ ~call.opts.nil /\ call.opts.OrderColumn # "") =>
        IF call.opts.OrderColumn \notin conn[call.repo].OrderColumns
        THEN call.err = "invalid order column" /\ call.sent = <<>>
        ELSE /\ Len(call.sent) >= 1
             /\ call.sent[1].order =
                    <<call.opts.OrderColumn,
                      IF call.opts.OrderDir \in DescSpellings THEN "DESC" ELSE "ASC">>

C6_Witness ==
    /\ call.op = "Get"
    /\ call.opts.OrderColumn = "name; DROP TABLE sessions"
    /\ call.err = "invalid order column"
    /\ call.sent = <<>>
    /\ Len(db[Primary]) > 0

(* C7: on a soft-delete repository, whenever the update performed by Delete *)
(* fails, Delete returns a non-nil error.                                   *)
C7_SoftDeleteReportsFailure ==
    (call.op = "Delete" /\ SD # Nil /\ call.inner # ErrNone) => call.err # ErrNone

(* C8: on a soft-delete repository, Delete(f) when every row matching f     *)
(* already has a non-null tombstone returns success and leaves every column *)
(* of every row of the table unchanged.                                     *)
C8_RedeleteIsNoop ==
    (/\ call.op = "Delete"
     /\ SD # Nil
     /\ \A i \in 1..Len(call.before[Primary]) :
            MatchesFilter(call.filters, call.before[Primary][i])
                => call.before[Primary][i][SD] # NULL) =>
        /\ call.err = ErrNone
        /\ db = call.before

(* C9 as stated: an Update(f, data) that executes without SQL error (and    *)
(* whose UPDATE found a row) returns through its re-read, and a following   *)
(* GetOne(f) returns a row whose value in every caller-supplied column      *)
(* other than id and created_at equals data's value.                        *)
C9_UpdateThenGetOne ==
    (/\ call.op = "Update"
     /\ Len(call.sent) >= 2
     /\ \E i \in 1..Len(call.before[Primary]) :
            Matches(call.sent[1].where, call.sent[1].args, call.before[Primary][i])) =>
        /\ call.err = ErrNone
        /\ LET Reads(g) ==
                   /\ g.err = ErrNone
                   /\ \A k \in DOMAIN call.data \ {"id", "created_at"} :
                          /\ call.models[1].f[k] = call.data[k]
                          /\ g.models[1].f[k] = call.data[k]
           IN  Reads(GetOne(Primary, call.filters, NilOptions, Env(TRUE)))

(* C9 amended: whenever Update(f, data) returns without error, the row it   *)
(* returns and the row a following GetOne(f) returns carry data's value in  *)
(* every caller-supplied column other than id, created_at and updated_at.   *)
C9_UpdateReturnsData ==
    (call.op = "Update" /\ call.err = ErrNone) =>
        LET Reads(g) ==
                /\ g.err = ErrNone
                /\ \A k \in DOMAIN call.data \ {"id", "created_at", "updated_at"} :
                       /\ call.models[1].f[k] = call.data[k]
                       /\ g.models[1].f[k] = call.data[k]
        IN  Reads(GetOne(Primary, call.filters, NilOptions, Env(TRUE)))

C9_Witness ==
    /\ call.op = "Update"
    /\ call.err = ErrNone
    /\ call.filters.Operator = ""
    /\ "name" \in DOMAIN call.data
    /\ call.models[1].f["name"] = NameB
    /\ Cardinality({i \in 1..Len(db[Primary]) :
                       /\ db[Primary][i] # call.before[Primary][i]
                       /\ call.before[Primary][i]["name"] = NameA}) >= 2

(* C10: Count(f) equals the number of rows of Get(f, nil), with and without *)
(* a soft-delete column: both compile the same WHERE fragment and argument  *)
(* list from f.                                                             *)
C10_CountEqualsGet ==
    call.op = "Count" =>
        LET Same(g) ==
                /\ call.sent[1].where = g.sent[1].where
                /\ call.sent[1].args = g.sent[1].args
                /\ call.err = ErrNone => (g.err = ErrNone /\ call.count = Len(g.models))
        IN  Same(Get(Primary, call.filters, NilOptions, Env(TRUE)))

C10_Witness ==
    /\ call.op = "Count"
    /\ SD # Nil
    /\ call.err = ErrNone
    /\ call.count = 1
    /\ Len(call.filters.Filters) = 2
    /\ call.sent[1].args # <<>>
    /\ \E i \in 1..Len(db[Primary]) : db[Primary][i][SD] # NULL

----------------------------------------------------------------------------
(* Statement s, run against the tables as they are, succeeds with no row.   *)
ZeroRows(s) ==
    LET Empty(res) == res.err = ErrNone /\ res.rows = <<>>
    IN  Empty(ExecSelect(s, db[s.table], TRUE))

(* Every entry of relation list rels starts with a name registered on       *)
(* repository c.                                                            *)
AllRegistered(c, rels) ==
    \A i \in 1..Len(rels) : rels[i][1] \in DOMAIN conn[c].RelationLoaders.m

(* C11: when the primary SELECT of Get returns zero rows and every relation *)
(* named in opts.Relations is registered, Get returns the empty list with   *)
(* no error and sends no further statement; at every level, an entity       *)
(* SELECT that returns zero rows is the last statement sent.                *)
C11_EmptyPrimaryNoRelationQuery ==
    /\ (/\ call.op = "Get"
        /\ call.err # ErrCanceled
        /\ call.opts.Relations # <<>>
        /\ AllRegistered(call.repo, call.opts.Relations)
        /\ Len(call.sent) >= 1
        /\ ZeroRows(call.sent[1]))
           => (call.err = ErrNone /\ call.models = <<>> /\ Len(call.sent) = 1)
    /\ \A i \in 1..Len(call.sent) :
          (/\ call.err # ErrCanceled
           /\ call.sent[i].table # PivotTable
           /\ ZeroRows(call.sent[i])) => i = Len(call.sent)

C11_Witness ==
    /\ call.op = "Get"
    /\ call.repo = "users"
    /\ conn["users"].RelationLoaders.m["roles"].kind = "ManyToMany"
    /\ call.opts.Relations = << <<"roles", "permissions">> >>
    /\ db["users"] # <<>>
    /\ ZeroRows(call.sent[1])
    /\ call.err = ErrNone
    /\ call.models = <<>>
    /\ Len(call.sent) = 1

(* The loaders that serve the segments of path, starting on repository c,   *)
(* each looked up on the repository the previous one leads to; cut at the   *)
(* first segment that is not registered at its level.                       *)
RECURSIVE PathLoaders(_, _)
PathLoaders(c, path) ==
    IF path = <<>> \/ path[1] \notin DOMAIN conn[c].RelationLoaders.m THEN <<>>
    ELSE LET Next1(ld) == <<ld>> \o PathLoaders(ld.Repository, Tail(path))
         IN  Next1(conn[c].RelationLoaders.m[path[1]])

IsManyToMany(ld) == ld.kind = "ManyToMany"

IsGetEntry(e) == e.fn = "Get"

(* C12: for one relation path of k segments, each registered at its level,  *)
(* with non-empty results, at most 1 + k statements plus one pivot query    *)
(* per ManyToMany segment are sent, and the j-th repository level handles   *)
(* no relation other than the j-th segment of the path.                     *)
C12_OneQueryPerSegment ==
    (/\ call.op = "Get"
     /\ call.err = ErrNone
     /\ Len(call.opts.Relations) = 1
     /\ Len(PathLoaders(call.repo, call.opts.Relations[1])) = Len(call.opts.Relations[1])
     /\ \A i \in 1..Len(call.sent) :
           call.sent[i].table # PivotTable => ~ZeroRows(call.sent[i]))
    => LET path == call.opts.Relations[1]
           Levels(gets) ==
               \A j \in 1..Len(gets) : \A i \in 1..Len(gets[j].Relations) :
                   j <= Len(path) /\ gets[j].Relations[i][1] = path[j]
       IN  /\ Len(call.sent) <= 1 + Len(path)
                                  + Len(SelectSeq(PathLoaders(call.repo, path), IsManyToMany))
           /\ Levels(SelectSeq(call.calls, IsGetEntry))

(* Statement s, run against the tables as they are, is accepted.            *)
SelectOk(s) ==
    LET Accepted(res) == res.err = ErrNone
    IN  Accepted(ExecSelect(s, db[s.table], TRUE))

(* C13: Get with opts.Columns a strict subset of the table's columns, on an *)
(* entity whose ScanFields returns its full destination list, succeeds:     *)
(* every returned row is scanned without error.                             *)
C13_PartialProjectionScans ==
    (/\ call.op = "Get"
     /\ ~call.opts.nil
     /\ call.opts.Columns # <<>>
     /\ {call.opts.Columns[i] : i \in 1..Len(call.opts.Columns)} \subseteq ColumnSet
     /\ {call.opts.Columns[i] : i \in 1..Len(call.opts.Columns)} # ColumnSet
     /\ call.err # ErrCanceled
     /\ Len(call.sent) >= 1
     /\ SelectOk(call.sent[1]))
    => call.err = ErrNone

(* The filter tree holds a Filter or FilterMultipleValue node somewhere.    *)
RECURSIVE HasFilterNode(_)
HasFilterNode(node) ==
    CASE node.type \in {"Filter", "FilterMultipleValue"} -> TRUE
      [] node.type = "GroupFilter" ->
            \E i \in 1..Len(node.Filters) : HasFilterNode(node.Filters[i])
      [] OTHER -> FALSE

(* C16: without a soft-delete column, Delete sends a DELETE with no WHERE   *)
(* clause only when the filter tree holds no filter node at all; a tree     *)
(* with a Single or MultiValue node, even one the compiler skips, never     *)
(* ends in an unconditional DELETE FROM t.                                  *)
C16_UnconditionalDeleteOnlyWithoutFilters ==
    (/\ call.op = "Delete"
     /\ SD = Nil
     /\ Len(call.sent) >= 1
     /\ call.sent[1].verb = "DELETE"
     /\ call.sent[1].where = <<>>)
    => ~HasFilterNode(call.filters)

(* C17: on a soft-delete repository, the UPDATE sent by Delete(f) changes   *)
(* only rows that satisfy f, for every tree f, top-level OR included: a row *)
(* that does not satisfy f keeps its tombstone and its updated_at.          *)
C17_SoftDeleteTouchesOnlyMatching ==
    (call.op = "Delete" /\ SD # Nil) =>
        \A i \in 1..Len(call.before[Primary]) :
            ~MatchesFilter(call.filters, call.before[Primary][i]) =>
                /\ db[Primary][i][SD] = call.before[Primary][i][SD]
                /\ db[Primary][i]["updated_at"] = call.before[Primary][i]["updated_at"]

(* Positions of the rows that were live and matched f before the call.      *)
LiveMatched(f) ==
    {i \in 1..Len(call.before[Primary]) :
        /\ call.before[Primary][i][SD] = NULL
        /\ MatchesFilter(f, call.before[Primary][i])}

(* C18: with soft-delete column d, whatever its name, after Delete(f)       *)
(* returns success every live row that matched f has a non-null d, a        *)
(* following Get(f, nil) returns none of those rows and Count(f) does not   *)
(* count them.                                                              *)
C18_DeletedRowsGoneFromReads ==
    (/\ call.op = "Delete"
     /\ SD # Nil
     /\ call.err = ErrNone
     /\ call.inner \in {ErrNone, ErrNoDocumentsFound}
     /\ call.filters.Operator = "")
    => LET Gone(hit, got, cnt) ==
               /\ \A i \in hit : db[Primary][i][SD] # NULL
               /\ \A i \in hit : \A j \in 1..Len(got.models) :
                     got.models[j].f["id"] # call.before[Primary][i]["id"]
               /\ cnt.err = ErrNone => cnt.count <= Len(db[Primary]) - Cardinality(hit)
       IN  Gone(LiveMatched(call.filters),
                Get(Primary, call.filters, NilOptions, Env(TRUE)),
                Count(Primary, call.filters, Env(TRUE)))

(* A read or count on a soft-delete repository with a non-empty tree whose  *)
(* top-level operator is the default, and whose statement was accepted.     *)
GuardedRead ==
    /\ call.op \in {"Get", "GetOne", "Count"}
    /\ SD # Nil
    /\ Len(call.filters.Filters) > 0
    /\ call.filters.Operator = ""
    /\ Len(call.sent) >= 1
    /\ SelectOk(call.sent[1])

(* C19 as stated: for a non-empty tree with predicate P and default/AND     *)
(* top-level operator, the WHERE clause after the soft-delete rewrite is    *)
(* (P) OR (d IS NULL): it admits every row whose d is NULL even when P is   *)
(* false for it.                                                            *)
C19_GuardIsDisjunction ==
    GuardedRead =>
        \A i \in 1..Len(db[Primary]) :
            Matches(call.sent[1].where, call.sent[1].args, db[Primary][i])
              <=> (MatchesFilter(call.filters, db[Primary][i]) \/ db[Primary][i][SD] = NULL)

(* C19 amended: the WHERE clause after the rewrite is (P) AND (d IS NULL);  *)
(* it admits exactly the rows that satisfy P and whose d is NULL.           *)
C19_GuardIsConjunction ==
    GuardedRead =>
        \A i \in 1..Len(db[Primary]) :
            Matches(call.sent[1].where, call.sent[1].args, db[Primary][i])
              <=> (MatchesFilter(call.filters, db[Primary][i]) /\ db[Primary][i][SD] = NULL)

C19_Witness ==
    /\ GuardedRead
    /\ call.op = "Get"
    /\ call.err = ErrNone
    /\ Len(call.models) = 1
    /\ \E i, j \in 1..Len(db[Primary]) :
          /\ db[Primary][i][SD] = NULL
          /\ ~MatchesFilter(call.filters, db[Primary][i])
          /\ ~Matches(call.sent[1].where, call.sent[1].args, db[Primary][i])
          /\ db[Primary][j][SD] = NULL
          /\ MatchesFilter(call.filters, db[Primary][j])

----------------------------------------------------------------------------
(* AddRelation without the duplicate test: the last registration wins.      *)
AddRelationOverwrite(cn, relation, loader) ==
    LET loaders == IF cn.RelationLoaders.nil THEN [nil |-> FALSE, m |-> <<>>]
                   ELSE cn.RelationLoaders
    IN  [err |-> ErrNone,
         cn  |-> [cn EXCEPT !.RelationLoaders =
                     [nil |-> FALSE,
                      m |-> [n \in DOMAIN loaders.m \cup {relation} |->
                               IF n = relation THEN loader ELSE loaders.m[n]]]]]

(* Connection.AddRelation: src/sql.go:615-626.  A nil map is made first;    *)
(* a name already present is refused.                                       *)
AddRelation(cn, relation, loader) ==
    LET loaders == IF cn.RelationLoaders.nil THEN [nil |-> FALSE, m |-> <<>>]
                   ELSE cn.RelationLoaders
    IN  IF relation \in DOMAIN loaders.m
        THEN [err |-> "relation loader already exists",
              cn  |-> [cn EXCEPT !.RelationLoaders = loaders]]
        ELSE [err |-> ErrNone,
              cn  |-> [cn EXCEPT !.RelationLoaders =
                          [nil |-> FALSE,
                           m |-> [n \in DOMAIN loaders.m \cup {relation} |->
                                    IF n = relation THEN loader ELSE loaders.m[n]]]]]

MaxAdds == 3   \* AddRelation calls in one behaviour

RelationNames == {"user", "roles", "permissions"}

SomeLoaders ==
    { OnetoOneLoader("users", "ParentId", "id", "User"),
      OnetoManyLoader("permissions", "Id", "parent_id", "Permissions") }

(* SpecAddRelation: AddRelation calls, one after another, on a repository   *)
(* created with a nil or with an empty loader map.                          *)
InitAddRelation ==
    /\ fin = [filters |-> GroupFilter(<<>>, ""), counter |-> 1]
    /\ fout = NoResult
    /\ now = 1
    /\ call = IdleCall
    /\ db = EmptyDb
    /\ \E loaders \in {NoLoaders, [nil |-> FALSE, m |-> <<>>]} :
          conn = [PlainConn EXCEPT ![Primary].RelationLoaders = loaders]

DoAddRelation(relation, loader) ==
    /\ LET Returned(r) ==
               /\ conn' = [conn EXCEPT ![Primary] = r.cn]
               /\ call' = [call EXCEPT
                              !.op = "AddRelation", !.repo = Primary, !.err = r.err,
                              !.before = conn[Primary].RelationLoaders,
                              !.calls = Append(@, [fn |-> "AddRelation", relation |-> relation,
                                                   loader |-> loader, err |-> r.err])]
       IN  Returned(AddRelation(conn[Primary], relation, loader))
    /\ UNCHANGED <<fin, fout, db, now>>

CallAddRelation ==
    Len(call.calls) < MaxAdds /\ \E relation \in RelationNames, loader \in SomeLoaders :
                                    DoAddRelation(relation, loader)

NextAddRelation == CallAddRelation

SpecAddRelation == InitAddRelation /\ [][NextAddRelation]_vars

(* Index of the first call of the log that used relation name n.            *)
FirstUse(n) ==
    CHOOSE i \in 1..Len(call.calls) :
        /\ call.calls[i].relation = n
        /\ \A j \in 1..(i - 1) : call.calls[j].relation # n

(* C15: after any sequence of AddRelation calls, on a map that started nil  *)
(* or empty, each registered name maps to the loader of the first call that *)
(* used it; a call with a registered name returns an error and leaves the   *)
(* map unchanged; a call with a new name returns nil and adds that entry    *)
(* only.                                                                    *)
C15_FirstRegistrationWins ==
    LET m == conn[Primary].RelationLoaders.m
        names == {call.calls[i].relation : i \in 1..Len(call.calls)}
    IN  /\ DOMAIN m = names
        /\ \A n \in names : m[n] = call.calls[FirstUse(n)].loader
        /\ \A i \in 1..Len(call.calls) :
              (call.calls[i].err = ErrNone) <=> (i = FirstUse(call.calls[i].relation))
        /\ (call.op = "AddRelation" /\ call.err # ErrNone) =>
              conn[Primary].RelationLoaders = call.before
        /\ (call.op = "AddRelation" /\ call.err = ErrNone) =>
              LET last == call.calls[Len(call.calls)]
              IN  /\ last.relation \notin DOMAIN call.before.m
                  /\ DOMAIN m = DOMAIN call.before.m \cup {last.relation}
                  /\ m[last.relation] = last.loader
                  /\ \A n \in DOMAIN call.before.m : m[n] = call.before.m[n]

C15_Witness ==
    /\ call.op = "AddRelation"
    /\ call.err # ErrNone
    /\ Len(call.calls) = 3
    /\ call.calls[1].relation = call.calls[3].relation
    /\ call.calls[1].loader # call.calls[3].loader
    /\ call.calls[2].relation # call.calls[1].relation
    /\ conn[Primary].RelationLoaders.m[call.calls[3].relation] = call.calls[1].loader
    /\ conn[Primary].RelationLoaders = call.before

----------------------------------------------------------------------------
(* The placeholder indices of each VALUES tuple of an INSERT, read back     *)
(* from its text.                                                           *)
ValuesTuples(toks) ==
    LET F[i \in 0..Len(toks)] ==
            IF i = 0 THEN <<>>
            ELSE IF toks[i].k = "(" THEN Append(F[i - 1], <<>>)
            ELSE IF toks[i].k = "ph" /\ F[i - 1] # <<>>
                 THEN [F[i - 1] EXCEPT ![Len(F[i - 1])] = Append(@, toks[i].n)]
            ELSE F[i - 1]
    IN  F[Len(toks)]

(* INSERT ... RETURNING * as the database runs it: every tuple has one      *)
(* value per listed column; a column that is not listed is NULL.            *)
ExecInsert(stmt, table, ctxOk) ==
    LET Run(tuples) ==
            IF \/ ~ValidStmt(stmt)
               \/ stmt.cols = <<>>
               \/ \E i, j \in 1..Len(stmt.cols) : i # j /\ stmt.cols[i] = stmt.cols[j]
               \/ tuples = <<>>
               \/ \E r \in 1..Len(tuples) : Len(tuples[r]) # Len(stmt.cols)
            THEN [err |-> ErrDriver, table |-> table, rows |-> <<>>]
            ELSE LET NewRows(rows) ==
                         [err |-> ErrNone, table |-> table \o rows, rows |-> rows]
                 IN  NewRows([r \in 1..Len(tuples) |->
                                [col \in ColumnSet |->
                                   IF \E j \in 1..Len(stmt.cols) : stmt.cols[j] = col
                                   THEN stmt.args[tuples[r][CHOOSE j \in 1..Len(stmt.cols) :
                                                               stmt.cols[j] = col]]
                                   ELSE NULL]])
    IN  IF ~ctxOk THEN [err |-> ErrCanceled, table |-> table, rows |-> <<>>]
        ELSE Run(ValuesTuples(stmt.set))

(* The text of the VALUES tuples of CreateMany: src/sql.go:866-881.  widths *)
(* is the number of entries of each map, in list order.                     *)
ValuesText(widths) ==
    LET F[r \in 0..Len(widths)] ==
            IF r = 0 THEN [toks |-> <<>>, totalItems |-> 1]
            ELSE [toks |-> F[r - 1].toks
                             \o (IF r > 1 THEN <<Comma>> ELSE <<>>)
                             \o <<LParen>>
                             \o [i \in 1..(2 * widths[r] - 1) |->
                                    IF i % 2 = 1 THEN PhTok(F[r - 1].totalItems + (i - 1) \div 2)
                                    ELSE Comma]
                             \o <<RParen>>,
                  totalItems |-> F[r - 1].totalItems + widths[r]]
    IN  F[Len(widths)].toks

(* The values of all maps, each map in the order its own range visits it:   *)
(* src/sql.go:875-879.                                                      *)
RECURSIVE RangedValues(_, _)
RangedValues(dataList, valKeys) ==
    IF dataList = <<>> THEN <<>>
    ELSE [i \in 1..Len(valKeys[1]) |-> dataList[1][valKeys[1][i]]]
           \o RangedValues(Tail(dataList), Tail(valKeys))

(* Connection.CreateMany: src/sql.go:847-909.  colKeys is the order in      *)
(* which the first range visits dataList[0]; valKeys[r] is the order in     *)
(* which the second range visits map r.                                     *)
CreateMany(c, dataList, colKeys, valKeys, env) ==
    LET cn == env.conn[c]
        Scan(stmt, res) ==
            IF res.err # ErrNone
            THEN [models |-> <<>>, err |-> res.err, sent |-> <<stmt>>, db |-> env.db]
            ELSE LET Collect(scanned) ==
                         [models |-> scanned.models, err |-> scanned.err, sent |-> <<stmt>>,
                          db |-> [env.db EXCEPT ![cn.Table] = res.table]]
                 IN  Collect(ScanAll(res.rows, <<"*">>))
        Query(stmt) == Scan(stmt, ExecInsert(stmt, env.db[cn.Table], env.ctxOk))
    IN  IF Len(dataList) = 0
        THEN [models |-> <<>>, err |-> ErrNone, sent |-> <<>>, db |-> env.db]
        ELSE Query(Stmt("INSERT", cn.Table, colKeys,
                        ValuesText([r \in 1..Len(dataList) |-> Len(valKeys[r])]),
                        <<>>, <<>>, 0, 0, RangedValues(dataList, valKeys)))

MaxMaps == 2   \* maps in one CreateMany list

CreateMaps ==
    { [k \in {"name", "parent_id"} |-> IF k = "name" THEN NameA ELSE 1],
      [k \in {"name", "parent_id"} |-> IF k = "name" THEN NameB ELSE 2],
      [k \in {"name", "id"} |-> IF k = "name" THEN NameB ELSE 7],
      [k \in {"name"} |-> NameA] }

(* SpecCreateMany: one CreateMany call on sessions, for every list of maps  *)
(* and every order in which the ranges can visit them.                      *)
InitCreateMany ==
    /\ fin = [filters |-> GroupFilter(<<>>, ""), counter |-> 1]
    /\ fout = NoResult
    /\ now = 1
    /\ call = IdleCall
    /\ conn = PlainConn
    /\ db \in {EmptyDb, [EmptyDb EXCEPT ![Primary] = <<Row(1, 1, NameA, NULL, NULL)>>]}

DoCreateMany(dataList, colKeys, valKeys, ctxOk) ==
    /\ LET Returned(r) ==
               /\ db' = r.db
               /\ call' = [IdleCall EXCEPT !.op = "CreateMany", !.repo = Primary,
                                           !.data = dataList, !.sent = r.sent,
                                           !.models = r.models, !.err = r.err,
                                           !.before = db]
       IN  Returned(CreateMany(Primary, dataList, colKeys, valKeys, Env(ctxOk)))
    /\ UNCHANGED <<fin, fout, conn, now>>

CallCreateMany ==
    call.op = "idle" /\ \E dataList \in SeqsUpTo(CreateMaps, MaxMaps), ctxOk \in BOOLEAN :
        \E colKeys \in (IF dataList = <<>> THEN {<<>>} ELSE Perms(DOMAIN dataList[1])) :
        \E valKeys \in {vk \in [1..Len(dataList) -> UNION {Perms(DOMAIN m) : m \in CreateMaps}] :
                            \A r \in 1..Len(dataList) : vk[r] \in Perms(DOMAIN dataList[r])} :
            DoCreateMany(dataList, colKeys, valKeys, ctxOk)

NextCreateMany == CallCreateMany

SpecCreateMany == InitCreateMany /\ [][NextCreateMany]_vars

(* C20: for a non-empty CreateMany list whose maps all have the key set of  *)
(* the first map, the statement lists the first map's keys as columns, the  *)
(* j-th argument of map r's VALUES tuple is r's value for the j-th listed   *)
(* column, whatever the map iteration order, and the placeholders run       *)
(* densely from $1 across all tuples.                                       *)
C20_ValuesFollowColumns ==
    (/\ call.op = "CreateMany"
     /\ Len(call.data) > 0
     /\ \A r \in 1..Len(call.data) : DOMAIN call.data[r] = DOMAIN call.data[1])
    => LET stmt == call.sent[1]
           Aligned(tuples) ==
               /\ Len(tuples) = Len(call.data)
               /\ \A r \in 1..Len(tuples) :
                     /\ Len(tuples[r]) = Len(stmt.cols)
                     /\ \A j \in 1..Len(stmt.cols) :
                           stmt.args[tuples[r][j]] = call.data[r][stmt.cols[j]]
       IN  /\ Len(call.sent) = 1
           /\ {stmt.cols[j] : j \in 1..Len(stmt.cols)} = DOMAIN call.data[1]
           /\ Len(stmt.cols) = Cardinality(DOMAIN call.data[1])
           /\ PhIndices(stmt.set) = [i \in 1..Len(stmt.args) |-> i]
           /\ Aligned(ValuesTuples(stmt.set))

----------------------------------------------------------------------------
(* Connection.Create with nil options: src/sql.go:774-845.  id is the new   *)
(* UUID, t the clock reading, keys the order in which range visits the      *)
(* payload after the id and the timestamps were written into it.            *)
CreatePayload(data, id, t) ==
    [k \in DOMAIN data \cup {"id", "created_at", "updated_at"} |->
        IF k = "id" THEN id ELSE IF k \in {"created_at", "updated_at"} THEN t ELSE data[k]]

Create(c, data, keys, id, t, env) ==
    LET cn == env.conn[c]
        Scan(stmt, res) ==
            IF res.err # ErrNone
            THEN [models |-> <<>>, err |-> "failed to scan data", sent |-> <<stmt>>,
                  db |-> env.db]
            ELSE LET Collect(scanned) ==
                         [models |-> scanned.models, err |-> scanned.err, sent |-> <<stmt>>,
                          db |-> [env.db EXCEPT ![cn.Table] = res.table]]
                 IN  Collect(ScanAll(res.rows, <<"*">>))
        Query(stmt) == Scan(stmt, ExecInsert(stmt, env.db[cn.Table], env.ctxOk))
        Build(pay) ==
            Stmt("INSERT", cn.Table, keys, ValuesText(<<Len(keys)>>), <<>>, <<>>, 0, 0,
                 [i \in 1..Len(keys) |-> pay[keys[i]]])
    IN  Query(Build(CreatePayload(data, id, t)))

MaxCallers == 2   \* callers that use the repository at the same time

ConcFilters ==
    { GroupFilter(<<>>, ""), GroupFilter(<<Filter("name", NameA, Nil, Nil)>>, "") }

(* What one caller holds: its position, its arguments, the values it read   *)
(* from the clock (t), the UUID source (id) and the map iteration (keys),   *)
(* and what it sent.                                                        *)
IdleCaller ==
    [pc |-> "idle", op |-> "", filters |-> GroupFilter(<<>>, ""), opts |-> NilOptions,
     data |-> <<>>, keys |-> <<>>, t |-> 0, id |-> 0, filt |-> GroupFilter(<<>>, ""),
     sent |-> <<>>, err |-> ErrNone]

Started(op, f, opts, data, keys, t) ==
    [IdleCaller EXCEPT !.op = op, !.filters = f, !.opts = opts, !.data = data,
                       !.keys = keys, !.t = t]

Finished(rec, r) == [rec EXCEPT !.pc = "done", !.sent = r.sent, !.err = r.err]

(* SpecConcurrent: every caller makes one call on the sessions repository;  *)
(* the calls interleave statement by statement.  fin keeps the repository   *)
(* and the tables the callers started from.                                 *)
InitConcurrent ==
    /\ fout = NoResult
    /\ now = 1
    /\ call = [p \in 1..MaxCallers |-> IdleCaller]
    /\ db = [EmptyDb EXCEPT ![Primary] = <<Row(1, 1, NameA, NULL, NULL),
                                           Row(2, 1, NameB, NULL, NULL)>>]
    /\ \E sd \in {Nil, "deleted_at"} : conn = [PlainConn EXCEPT ![Primary].SoftDelete = sd]
    /\ fin = [db |-> db, conn |-> conn]

(* Get that makes the loader map when it finds it nil.                      *)
ConcGetMakingMap(p) ==
    /\ call[p].pc = "idle"
    /\ \E f \in ConcFilters, opts \in {NilOptions, Options(<<>>, 0, 0, "name", <<>>, <<>>)} :
          LET Returned(r) ==
                  call' = [call EXCEPT ![p] = Finished(Started("Get", f, opts, <<>>, <<>>, 0), r)]
          IN  Returned(Get(Primary, f, opts, Env(TRUE)))
    /\ conn' = [conn EXCEPT ![Primary].RelationLoaders = [nil |-> FALSE, m |-> <<>>]]
    /\ UNCHANGED <<fin, fout, db, now>>

ConcGet(p) ==
    /\ call[p].pc = "idle"
    /\ \E f \in ConcFilters, opts \in {NilOptions, Options(<<>>, 0, 0, "name", <<>>, <<>>)} :
          LET Returned(r) ==
                  call' = [call EXCEPT ![p] = Finished(Started("Get", f, opts, <<>>, <<>>, 0), r)]
          IN  Returned(Get(Primary, f, opts, Env(TRUE)))
    /\ UNCHANGED <<fin, fout, db, conn, now>>

ConcGetOne(p) ==
    /\ call[p].pc = "idle"
    /\ \E f \in ConcFilters, opts \in {NilOptions, Options(<<>>, 0, 0, "name", <<>>, <<>>)} :
          LET Returned(r) ==
                  call' = [call EXCEPT ![p] = Finished(Started("GetOne", f, opts, <<>>, <<>>, 0), r)]
          IN  Returned(GetOne(Primary, f, opts, Env(TRUE)))
    /\ UNCHANGED <<fin, fout, db, conn, now>>

ConcCount(p) ==
    /\ call[p].pc = "idle"
    /\ \E f \in ConcFilters :
          LET Returned(r) ==
                  call' = [call EXCEPT ![p] =
                             Finished(Started("Count", f, NilOptions, <<>>, <<>>, 0), r)]
          IN  Returned(Count(Primary, f, Env(TRUE)))
    /\ UNCHANGED <<fin, fout, db, conn, now>>

ConcCreate(p) ==
    /\ call[p].pc = "idle"
    /\ \E data \in {[k \in {"name"} |-> NameB]} :
       \E keys \in Perms(DOMAIN CreatePayload(data, 0, 0)) :
          LET Returned(r) ==
                  /\ call' = [call EXCEPT ![p] =
                                Finished([Started("Create", GroupFilter(<<>>, ""),
                                                  NilOptions, data, keys, now)
                                             EXCEPT !.id = 7 + p], r)]
                  /\ db' = r.db
          IN  Returned(Create(Primary, data, keys, 7 + p, now, Env(TRUE)))
    /\ now' = now + 1
    /\ UNCHANGED <<fin, fout, conn>>

ConcCreateMany(p) ==
    /\ call[p].pc = "idle"
    /\ \E dataList \in {<<[k \in {"name", "parent_id"} |-> IF k = "name" THEN NameA ELSE 1]>>} :
       \E colKeys \in Perms(DOMAIN dataList[1]), valKeys \in Perms(DOMAIN dataList[1]) :
          LET Returned(r) ==
                  /\ call' = [call EXCEPT ![p] =
                                Finished(Started("CreateMany", GroupFilter(<<>>, ""), NilOptions,
                                                 dataList, <<colKeys, valKeys>>, 0), r)]
                  /\ db' = r.db
          IN  Returned(CreateMany(Primary, dataList, colKeys, <<valKeys>>, Env(TRUE)))
    /\ UNCHANGED <<fin, fout, conn, now>>

(* The UPDATE of Update; the re-read follows in a step of its own.          *)
ConcUpdate(p) ==
    /\ call[p].pc = "idle"
    /\ \E f \in ConcFilters, data \in {[k \in {"name"} |-> NameB]} :
       \E keys \in Perms(DOMAIN UpdatePayload(data, now)) :
          LET Returned(r) ==
                  /\ call' = [call EXCEPT ![p] =
                                [Started("Update", f, NilOptions, data, keys, now) EXCEPT
                                   !.pc = IF Len(r.sent) > 1 THEN "reread" ELSE "done",
                                   !.filt = prepareSoftDelete(conn[Primary].SoftDelete, f),
                                   !.sent = <<r.sent[1]>>,
                                   !.err = IF Len(r.sent) > 1 THEN ErrNone ELSE r.err]]
                  /\ db' = r.db
          IN  Returned(Update(Primary, f, data, keys, now, Env(TRUE)))
    /\ now' = now + 1
    /\ UNCHANGED <<fin, fout, conn>>

(* Delete: one DELETE, or the UPDATE of the soft branch with its re-read    *)
(* left for a later step.                                                   *)
ConcDelete(p) ==
    /\ call[p].pc = "idle"
    /\ \E f \in ConcFilters, keys \in Perms({"deleted_at", "updated_at"}) :
          LET Returned(r) ==
                  /\ call' = [call EXCEPT ![p] =
                                [Started("Delete", f, NilOptions, <<>>, keys, now) EXCEPT
                                   !.pc = IF Len(r.sent) > 1 THEN "reread" ELSE "done",
                                   !.filt = prepareSoftDelete(conn[Primary].SoftDelete, f),
                                   !.sent = <<r.sent[1]>>,
                                   !.err = IF Len(r.sent) > 1 THEN ErrNone ELSE r.err]]
                  /\ db' = r.db
          IN  Returned(Delete(Primary, f, keys, now, Env(TRUE)))
    /\ now' = now + 2
    /\ UNCHANGED <<fin, fout, conn>>

(* The GetOne(filters, nil) that ends Update: src/sql.go:959-967.           *)
ConcReread(p) ==
    /\ call[p].pc = "reread"
    /\ LET Returned(g) ==
               call' = [call EXCEPT ![p].pc = "done", ![p].sent = @ \o g.sent,
                                    ![p].err = IF call[p].op = "Delete" THEN ErrNone
                                               ELSE g.err]
       IN  Returned(GetOne(Primary, call[p].filt, NilOptions, Env(TRUE)))
    /\ UNCHANGED <<fin, fout, db, conn, now>>

NextConcurrent ==
    \E p \in 1..MaxCallers :
        \/ ConcGet(p)
        \/ ConcGetOne(p)
        \/ ConcCount(p)
        \/ ConcCreate(p)
        \/ ConcCreateMany(p)
        \/ ConcUpdate(p)
        \/ ConcDelete(p)
        \/ ConcReread(p)

SpecConcurrent == InitConcurrent /\ [][NextConcurrent]_vars

(* The statements of the call of rec when it runs alone on the repository   *)
(* and the tables the callers started from.                                 *)
Alone(rec) ==
    LET env0 == [db |-> fin.db, conn |-> fin.conn, ctxOk |-> TRUE]
    IN  CASE rec.op = "Get" -> Get(Primary, rec.filters, rec.opts, env0).sent
          [] rec.op = "GetOne" -> GetOne(Primary, rec.filters, rec.opts, env0).sent
          [] rec.op = "Count" -> Count(Primary, rec.filters, env0).sent
          [] rec.op = "Create" ->
                Create(Primary, rec.data, rec.keys, rec.id, rec.t, env0).sent
          [] rec.op = "CreateMany" ->
                CreateMany(Primary, rec.data, rec.keys[1], <<rec.keys[2]>>, env0).sent
          [] rec.op = "Update" ->
                Update(Primary, rec.filters, rec.data, rec.keys, rec.t, env0).sent
          [] rec.op = "Delete" -> Delete(Primary, rec.filters, rec.keys, rec.t, env0).sent
          [] OTHER -> <<>>

(* C14: in every interleaving of Get, GetOne, Create, CreateMany, Update,   *)
(* Delete and Count calls of independent callers, with no AddRelation       *)
(* running, no call writes the repository's table name, order-column set,   *)
(* soft-delete column or loader map, and the statements and argument lists  *)
(* of each call are those of the same call running alone.                   *)
C14_CallsLeaveRepositoryAlone ==
    /\ conn = fin.conn
    /\ \A p \in 1..MaxCallers :
          LET Same(alone) ==
                  /\ Len(call[p].sent) <= Len(alone)
                  /\ call[p].pc = "done" => Len(call[p].sent) = Len(alone)
                  /\ \A i \in 1..Len(call[p].sent) : call[p].sent[i] = alone[i]
          IN  call[p].pc # "idle" => Same(Alone(call[p]))

C14_Witness ==
    /\ \A p \in 1..MaxCallers : call[p].pc = "done"
    /\ call[1].op = "Update"
    /\ call[1].filters.Filters = <<>>
    /\ call[1].err = ErrNoDocumentsFound
    /\ call[2].op = "Delete"
    /\ call[1].t < call[2].t
    /\ conn[Primary].SoftDelete = "deleted_at"
    /\ \A i \in 1..Len(db[Primary]) :
          db[Primary][i]["name"] = NameB /\ db[Primary][i]["deleted_at"] # NULL

----------------------------------------------------------------------------
(* C21: a Get or GetOne with an opts.Relations entry whose head is not a    *)
(* registered relation name returns an error, also on a repository whose    *)
(* loader map is nil; an unregistered relation is never silently ignored.   *)
C21_UnregisteredRelationFails ==
    (/\ IsRead
     /\ ~call.opts.nil
     /\ \E i \in 1..Len(call.opts.Relations) :
            FirstSegment(call.opts.Relations[i])
                \notin DOMAIN conn[call.repo].RelationLoaders.m)
    => call.err # ErrNone

(* The rows the primary SELECT of the call returns.                         *)
PrimaryRows == ExecSelect(call.sent[1], db[call.sent[1].table], TRUE).rows

(* A Get on sessions with the one relation "user", whose primary SELECT     *)
(* returned at least one row.                                               *)
OneToOneCase ==
    /\ call.op = "Get"
    /\ call.repo = "sessions"
    /\ call.opts.Relations = << <<"user">> >>
    /\ call.err # ErrCanceled
    /\ Len(call.sent) >= 1
    /\ SelectOk(call.sent[1])
    /\ PrimaryRows # <<>>

(* C22: a OneToOne loader invoked with k >= 1 parents reads parentField of  *)
(* parents[0] only, sends exactly one child GetOne with childFkField = that *)
(* value, assigns the child to the container of parents[0] and leaves the   *)
(* container of every other parent unchanged; when the GetOne finds no      *)
(* child the enclosing Get returns an error and no rows.                    *)
C22_OneToOneFirstParentOnly ==
    OneToOneCase =>
        LET Checked(rows, found) ==
                /\ Len(call.sent) = 2
                /\ call.sent[2].table = "users"
                /\ call.sent[2].limit = 1
                /\ BoundPairs(call.sent[2].where, call.sent[2].args, 1)
                      = << <<"id", rows[1]["parent_id"]>> >>
                /\ found # {} =>
                      /\ call.err = ErrNone
                      /\ Len(call.models) = Len(rows)
                      /\ Len(call.models[1].c["User"]) = 1
                      /\ call.models[1].c["User"][1].f["id"] = rows[1]["parent_id"]
                      /\ \A i \in 2..Len(rows) : call.models[i].c["User"] = <<>>
                /\ found = {} => (call.err # ErrNone /\ call.models = <<>>)
        IN  Checked(PrimaryRows,
                    {i \in 1..Len(db["users"]) :
                        db["users"][i]["id"] = PrimaryRows[1]["parent_id"]})

C22_Witness ==
    /\ OneToOneCase
    /\ call.err = ErrNone
    /\ Len(call.models) = 2
    /\ call.models[1].f["parent_id"] # call.models[2].f["parent_id"]
    /\ Len(call.models[1].c["User"]) = 1
    /\ call.models[2].c["User"] = <<>>
    /\ \E i \in 1..Len(db["users"]) : db["users"][i]["id"] = call.models[2].f["parent_id"]

(* The loader a single-segment relation list of the call names.            *)
NamedLoader == conn[call.repo].RelationLoaders.m[call.opts.Relations[1][1]]

(* A Get with one single-segment relation that is registered, whose primary *)
(* SELECT returned rows and whose loader sent its child query.              *)
SingleRelationCase(kind) ==
    /\ call.op = "Get"
    /\ ~call.opts.nil
    /\ Len(call.opts.Relations) = 1
    /\ Len(call.opts.Relations[1]) = 1
    /\ call.opts.Relations[1][1] \in DOMAIN conn[call.repo].RelationLoaders.m
    /\ NamedLoader.kind = kind
    /\ call.err # ErrCanceled
    /\ Len(call.sent) >= 1
    /\ SelectOk(call.sent[1])
    /\ PrimaryRows # <<>>

(* The rows the last statement of the call returns.                         *)
ChildRows == 
    ExecSelect(call.sent[Len(call.sent)], db[call.sent[Len(call.sent)].table], TRUE).rows

(* The rows held by a container.                                            *)
Held(container) == [i \in 1..Len(container) |-> container[i].f]

(* C23: after a OneToMany load over parents with pairwise distinct          *)
(* parentField values and empty containers, each parent's container holds   *)
(* exactly the children of the single child query whose foreign key equals  *)
(* that parent's parentField, in child-query order; a child matching no     *)
(* parent is in no container and a parent without children stays empty.     *)
C23_OneToManyGroupsByForeignKey ==
    (/\ SingleRelationCase("OnetoMany")
     /\ \A i, j \in 1..Len(PrimaryRows) :
            i # j => PrimaryRows[i][FieldColumn(NamedLoader.ParentField)]
                       # PrimaryRows[j][FieldColumn(NamedLoader.ParentField)])
    => LET Checked(l, rows, children) ==
               /\ call.err = ErrNone
               /\ Len(call.sent) = 2
               /\ call.sent[2].table = l.Repository
               /\ Len(call.models) = Len(rows)
               /\ \A p \in 1..Len(rows) :
                      LET Mine(r) == r[l.ChildFkField] = rows[p][FieldColumn(l.ParentField)]
                      IN  Held(call.models[p].c[l.ContainerField]) = SelectSeq(children, Mine)
       IN  Checked(NamedLoader, PrimaryRows, ChildRows)

C23_Witness ==
    /\ SingleRelationCase("OnetoMany")
    /\ call.err = ErrNone
    /\ Len(call.models) = 2
    /\ Len(call.models[1].c[NamedLoader.ContainerField]) = 2
    /\ Len(call.models[2].c[NamedLoader.ContainerField]) = 1
    /\ Len(ChildRows) = 3
    /\ ChildRows[2][NamedLoader.ChildFkField] = PrimaryRows[2]["id"]

(* The rows the pivot query of a ManyToMany load returned.                  *)
PivotReturned == ExecSelect(call.sent[2], db[call.sent[2].table], TRUE).rows

(* A Get with the one relation of a ManyToMany loader whose load succeeded. *)
ManyToManyCase ==
    /\ SingleRelationCase("ManyToMany")
    /\ call.err = ErrNone
    /\ Len(call.sent) = 3

(* Each parent's container holds, in child-query order, the children the    *)
(* pivot rows pair with that parent.                                        *)
ContainersFollowPivot ==
    LET Checked(m, rows, pivot, children) ==
            /\ Len(call.models) = Len(rows)
            /\ \A p \in 1..Len(rows) :
                   LET Paired(c) ==
                           \E i \in 1..Len(pivot) :
                               /\ pivot[i][m.PivoteParentKey] = rows[p][FieldColumn(m.ParentKey)]
                               /\ pivot[i][m.PivoteChildKey] = c[FieldColumn(m.ChildKey)]
                   IN  Held(call.models[p].c[m.ContainerField]) = SelectSeq(children, Paired)
    IN  Checked(NamedLoader, PrimaryRows, PivotReturned, ChildRows)

(* The values bound to the child query are pairwise distinct.               *)
ChildIdsOnce ==
    \A i, j \in 1..Len(call.sent[3].args) :
        i # j => call.sent[3].args[i] # call.sent[3].args[j]

(* C24: after a ManyToMany load a child returned by the child query is in   *)
(* a parent's container exactly when the pivot query returned the row       *)
(* (parent key, child key); shared children appear in every such container, *)
(* in child-query order, and the child query's IN list holds each child id  *)
(* at most once.                                                            *)
C24_ManyToManyFollowsPivot ==
    ManyToManyCase => (ContainersFollowPivot /\ ChildIdsOnce)

(* A Get that succeeded and whose relation list is one registered           *)
(* single-segment name, twice.                                              *)
ListedTwice ==
    /\ call.op = "Get"
    /\ ~call.opts.nil
    /\ Len(call.opts.Relations) = 2
    /\ call.opts.Relations[1] = call.opts.Relations[2]
    /\ Len(call.opts.Relations[1]) = 1
    /\ call.opts.Relations[1][1] \in DOMAIN conn[call.repo].RelationLoaders.m
    /\ call.err = ErrNone
    /\ call.models # <<>>

(* C25: relation loading is idempotent per relation name: a Get listing the *)
(* same relation name twice leaves every parent's container with the        *)
(* contents of a Get listing it once, with no child appearing twice.        *)
C25_RelationListedTwiceLoadsOnce ==
    ListedTwice =>
        LET Same(once) == once.err = ErrNone /\ call.models = once.models
        IN  Same(Get(call.repo, call.filters,
                     [call.opts EXCEPT !.Relations = <<call.opts.Relations[1]>>],
                     Env(TRUE)))

(* The text holds an IN or NOT IN comparison whose list is empty.           *)
EmptyInList(toks) ==
    \E i \in 1..Len(toks) :
        /\ i + 2 <= Len(toks)
        /\ toks[i].k = "cmp"
        /\ toks[i].s \in {ComparatorIn, ComparatorNotIn}
        /\ toks[i + 1].k = "("
        /\ toks[i + 2].k = ")"

(* C26: no statement sent to the SQL handle holds an IN or NOT IN           *)
(* comparison with an empty parenthesised list, neither from a MultiValue   *)
(* filter with zero values nor from a ManyToMany load whose pivot query     *)
(* returned no rows.                                                        *)
C26_NoEmptyInList ==
    \A i \in 1..Len(call.sent) : ~EmptyInList(call.sent[i].where)

(* The sibling contributes a fragment to its group's text.                  *)
RECURSIVE Emits(_)
Emits(node) ==
    CASE node.type = "Filter" -> node.Comparator \notin {ComparatorIn, ComparatorNotIn}
      [] node.type = "FilterMultipleValue" ->
             node.Comparator \in {Nil, ComparatorIn, ComparatorNotIn}
      [] node.type = "GroupFilter" ->
             \E i \in 1..Len(node.Filters) : Emits(node.Filters[i])
      [] OTHER -> FALSE

(* The positions of the operators of a text that lie outside every          *)
(* parenthesis.                                                             *)
TopOps(toks) ==
    {i \in 1..Len(toks) :
        /\ toks[i].k = "op"
        /\ Cardinality({j \in 1..(i - 1) : toks[j].k = "("})
             = Cardinality({j \in 1..(i - 1) : toks[j].k = ")"})}

(* The j-th of the n stretches the top operators cut the text into.         *)
Piece(toks, j, n) ==
    LET Cut(k) == CHOOSE i \in TopOps(toks) :
                      Cardinality({h \in TopOps(toks) : h < i}) = k - 1
    IN  SubSeq(toks, IF j = 1 THEN 1 ELSE Cut(j - 1) + 1,
                     IF j = n THEN Len(toks) ELSE Cut(j) - 1)

(* The text of a group is its emitting siblings' fragments, in order,       *)
(* with the group's operator once between two neighbours and nowhere else.  *)
RECURSIVE GroupJoined(_, _)
GroupJoined(group, toks) ==
    LET groupOperator == IF group.Operator # "" THEN group.Operator ELSE OperatorAnd
        FragmentOf(node, piece) ==
            /\ piece # <<>>
            /\ CASE node.type = "Filter" ->
                        /\ piece[1] = KeyTok(node.Key)
                        /\ \A h \in 1..Len(piece) : piece[h].k \notin {"op", "(", ")"}
                   [] node.type = "FilterMultipleValue" ->
                        /\ piece[1] = KeyTok(node.Key)
                        /\ Len(piece) >= 4
                        /\ piece[3] = LParen
                        /\ piece[Len(piece)] = RParen
                        /\ \A h \in 1..Len(piece) : piece[h].k # "op"
                   [] OTHER ->
                        /\ Len(piece) >= 2
                        /\ piece[1] = LParen
                        /\ piece[Len(piece)] = RParen
                        /\ GroupJoined(node, SubSeq(piece, 2, Len(piece) - 1))
        Checked(em) ==
            IF em = <<>> THEN toks = <<>>
            ELSE /\ toks # <<>>
                 /\ Cardinality(TopOps(toks)) = Len(em) - 1
                 /\ \A i \in TopOps(toks) : toks[i].s = groupOperator
                 /\ \A j \in 1..Len(em) : FragmentOf(em[j], Piece(toks, j, Len(em)))
    IN  Checked(SelectSeq(group.Filters, Emits))

(* The tree with the Operator field of every Single filter cleared.         *)
RECURSIVE WithoutOwnOperators(_)
WithoutOwnOperators(node) ==
    CASE node.type = "Filter" -> [node EXCEPT !.Operator = Nil]
      [] node.type = "GroupFilter" ->
             [node EXCEPT !.Filters = [i \in 1..Len(node.Filters) |->
                                          WithoutOwnOperators(node.Filters[i])]]
      [] OTHER -> node

(* C27: within one group prepareFilters writes the group's operator (AND    *)
(* when it is empty) exactly once between two consecutive emitted fragments *)
(* and nowhere else, never first, last or next to a skipped sibling; the    *)
(* fragments keep the siblings' order and a Single filter's own operator    *)
(* field has no effect.                                                     *)
C27_OperatorOnlyBetweenFragments ==
    fout # NoResult =>
        /\ GroupJoined(fin.filters, fout.q)
        /\ prepareFilters(WithoutOwnOperators(fin.filters), fin.counter) = fout

C27_Witness ==
    /\ fout # NoResult
    /\ Len(fin.filters.Filters) = 3
    /\ fin.filters.Operator = ""
    /\ Emits(fin.filters.Filters[1])
    /\ ~Emits(fin.filters.Filters[2])
    /\ fin.filters.Filters[3].type = "Filter"
    /\ fin.filters.Filters[3].Operator = OperatorOr
    /\ Cardinality(TopOps(fout.q)) = 1

(* C28: GetOne(filters, opts) leaves the caller's options record unchanged: *)
(* after it returns opts.Limit has the value the caller set, so a following *)
(* Get(filters, opts) with the same record returns what it would have       *)
(* returned before and is not limited to one row.                           *)
C28_GetOneLeavesOptionsAlone ==
    (call.op = "GetOne" /\ ~call.opts.nil) =>
        LET Same(after, before) == after.models = before.models
        IN  /\ call.optsAfter.Limit = call.opts.Limit
            /\ Same(Get(call.repo, call.filters, call.optsAfter, Env(TRUE)),
                    Get(call.repo, call.filters, call.opts, Env(TRUE)))

(* ------------------------------------------------------------------------ *)
(* The Postgres adapter: src/unnamed/part_001.  Here conn is the adapter    *)
(* (its Dsn, its Conn as the index of a handle in db or 0 for nil, and the  *)
(* holder of its mutex), db the state of every handle sql.Open returned,    *)
(* fin whether sql.Open accepts the DSN and whether the database answers,   *)
(* call each caller's position, fout the call that returned last and now    *)
(* the number of calls started.                                             *)
(* ------------------------------------------------------------------------ *)
MaxOps == 4   \* calls started on one adapter

InitAdapter ==
    /\ fin \in [opens : BOOLEAN, reachable : BOOLEAN]
    /\ conn \in [Dsn : {"", "host=h port=5432"}, Conn : {0}, mu : {0}]
    /\ db = <<>>
    /\ call = [p \in 1..MaxCallers |-> [pc |-> "idle", handle |-> 0]]
    /\ fout = [op |-> "", err |-> ErrNone, handle |-> 0]
    /\ now = 0

(* Connect up to the ping, under the mutex; the early returns unlock.       *)
Connect(p) ==
    /\ call[p].pc = "idle"
    /\ conn.mu = 0
    /\ now < MaxOps
    /\ now' = now + 1
    /\ IF conn.Conn # 0
       THEN fout' = [op |-> "Connect", err |-> ErrNone, handle |-> 0] /\ UNCHANGED <<conn, db, call>>
       ELSE IF conn.Dsn = ""
       THEN fout' = [op |-> "Connect", err |-> "DSN is not set", handle |-> 0] /\ UNCHANGED <<conn, db, call>>
       ELSE IF ~fin.opens
       THEN /\ fout' = [op |-> "Connect", err |-> "error opening database connection", handle |-> 0]
            /\ UNCHANGED <<conn, db, call>>
       ELSE IF ~fin.reachable
       THEN /\ db' = Append(db, "open")
            /\ fout' = [op |-> "Connect", err |-> "failed to ping database", handle |-> 0]
            /\ UNCHANGED <<conn, call>>
       ELSE /\ db' = Append(db, "open")
            /\ conn' = [conn EXCEPT !.mu = p]
            /\ call' = [call EXCEPT ![p] = [pc |-> "assign", handle |-> Len(db) + 1]]
            /\ UNCHANGED fout
    /\ UNCHANGED fin

(* p.Conn = conn, return nil and the deferred unlock.                       *)
ConnectAssign(p) ==
    /\ call[p].pc = "assign"
    /\ conn' = [conn EXCEPT !.Conn = call[p].handle, !.mu = 0]
    /\ call' = [call EXCEPT ![p] = [pc |-> "idle", handle |-> 0]]
    /\ fout' = [op |-> "Connect", err |-> ErrNone, handle |-> 0]
    /\ UNCHANGED <<fin, db, now>>

(* Close closes the handle p.Conn holds and leaves p.Conn as it is; it does *)
(* not take the mutex.                                                      *)
Close(p) ==
    /\ call[p].pc = "idle"
    /\ now < MaxOps
    /\ now' = now + 1
    /\ db' = IF conn.Conn # 0 THEN [db EXCEPT ![conn.Conn] = "closed"] ELSE db
    /\ fout' = [op |-> "Close", err |-> ErrNone, handle |-> 0]
    /\ UNCHANGED <<fin, conn, call>>

Ping(p) ==
    /\ call[p].pc = "idle"
    /\ now < MaxOps
    /\ now' = now + 1
    /\ fout' = [op |-> "Ping",
                err |-> IF conn.Conn = 0 THEN "no active database connection"
                        ELSE IF db[conn.Conn] = "closed" THEN "sql: database is closed"
                        ELSE IF ~fin.reachable THEN "connection refused"
                        ELSE ErrNone,
                handle |-> 0]
    /\ UNCHANGED <<fin, conn, db, call>>

GetConnection(p) ==
    /\ call[p].pc = "idle"
    /\ now < MaxOps
    /\ now' = now + 1
    /\ fout' = [op |-> "GetConnection", err |-> ErrNone, handle |-> conn.Conn]
    /\ UNCHANGED <<fin, conn, db, call>>

NextAdapter ==
    \E p \in 1..MaxCallers :
        \/ Connect(p)
        \/ ConnectAssign(p)
        \/ Close(p)
        \/ Ping(p)
        \/ GetConnection(p)

SpecAdapter == InitAdapter /\ [][NextAdapter]_vars

(* C29: on an adapter with a DSN set, when the call that returned last is a *)
(* successful Connect, GetConnection returns an open handle, Ping succeeds  *)
(* against a reachable database, and exactly one open handle exists: a      *)
(* Connect after Close brings a live connection back and concurrent         *)
(* Connects leave one handle assigned.                                      *)
C29_ConnectLeavesLiveHandle ==
    (/\ conn.Dsn # ""
     /\ fout.op = "Connect"
     /\ fout.err = ErrNone)
    => /\ conn.Conn # 0
       /\ db[conn.Conn] = "open"
       /\ Cardinality({h \in 1..Len(db) : db[h] = "open"}) = 1

====
